---- MODULE Spec2Model ----
(***************************************************************************)
(* Model of the research / book generation pipeline:                       *)
(*   backend/utils/orchestrator.py      quality gate and workflow          *)
(*   backend/lambda/research_handler.py research stage and its scorer      *)
(*   backend/lambda/book_generator.py   book stage and its scorer          *)
(*   backend/lambda/audiobook_generator.py  chunking and audiobook stage   *)
(*                                                                         *)
(* Text is kept run-length encoded: a string is a sequence of runs         *)
(* [u |-> unit, n |-> count], the unit repeated count times.  The text     *)
(* functions of the code (len, strip, split, re.findall) are computed on   *)
(* the characters of the expanded string.                                  *)
(***************************************************************************)
EXTENDS Integers, Sequences, FiniteSets, TLC

VARIABLES
    mode,              \* which entry point this run exercises
    pc,                \* position inside the running function
    research_data,     \* quality gate: the 'results' list handed to the gate
    min_confidence,    \* quality gate: self.min_confidence
    validation,        \* quality gate: the returned verdict
    score_in,          \* scorers: the arguments of the call
    score_out,         \* scorers: the returned score
    sections,          \* generate_research: the requested section names
    sec_i,             \* generate_research: index of the section the loop is at
    prompt,            \* generate_research: the local 'prompt'
    research_results,  \* generate_research: the local list being built
    research_out,      \* generate_research: the returned list
    attempts,          \* the calls made to the backends, in order
    book_topic,        \* generate_book: the topic
    book_research,     \* generate_book: the research_data argument
    book,              \* generate_book: the local 'book' being assembled
    chapter_number,    \* generate_book: the local counter
    book_i,            \* generate_book: index of the research item the loop is at
    book_out,          \* generate_book: the returned book
    split_text,        \* split_text_into_chunks: the 'text' argument
    split_max,         \* split_text_into_chunks: the 'max_size' argument
    split_out,         \* split_text_into_chunks: the returned list
    book_content,      \* generate_audiobook: the book being narrated
    include_confidence,\* generate_audiobook: narrate the confidence scores
    unit_i,            \* generate_audiobook: the unit the loop is at, 0 the intro
    audio_files,       \* generate_audiobook: the local list of artifacts
    failed_chapters,   \* generate_audiobook: the local list of failures
    total_duration,    \* generate_audiobook: the local sum of durations
    audiobook_out,     \* generate_audiobook: the returned result
    unit_text,         \* generate_chapter_audio: the 'text' argument
    text_chunks,       \* generate_chapter_audio: the chunks of the text
    audio_chunks,      \* generate_chapter_audio: the temporary files written so far
    final_audio_file,  \* generate_chapter_audio: the file handed to the upload
    temp_files,        \* the temporary directory: file name -> audio
    s3_objects,        \* the audio bucket: the objects put, in order
    units,             \* what happened to each unit narrated so far
    clock,             \* the UTC clock, in whole seconds
    wf,                \* process_research_request: the locals of each invocation
    history,           \* the workflow results handed to _store_workflow_history
    store,             \* the storing handlers: the request and position of each
    s3_puts            \* the bucket: the put_object calls made, in order

gateVars == <<research_data, min_confidence, validation>>
scoreVars == <<score_in, score_out>>
researchVars == <<sections, sec_i, prompt, research_results, research_out, attempts>>
bookVars == <<book_topic, book_research, book, chapter_number, book_i, book_out>>
chunkVars == <<split_text, split_max, split_out>>
audiobookVars == <<book_content, include_confidence, unit_i, audio_files,
                   failed_chapters, total_duration, audiobook_out>>
chapterAudioVars == <<unit_text, text_chunks, audio_chunks, final_audio_file,
                      temp_files, s3_objects, units>>
audioVars == <<audiobookVars, chapterAudioVars>>
workflowVars == <<clock, wf, history>>
storeVars == <<store, s3_puts>>
vars == <<mode, pc, gateVars, scoreVars, researchVars, bookVars, chunkVars,
          audioVars, workflowVars, storeVars>>

None == "None"

\* ------------------------------------------------------------------ bounds

MaxGateSections == 4
MaxRuns == 3
MaxSections == 3
MaxBookSections == 2

\* ------------------------------------------------------------- arithmetic

Min(a, b) == IF a <= b THEN a ELSE b
Max(a, b) == IF a >= b THEN a ELSE b

RECURSIVE SumSeq(_)
SumSeq(s) == IF s = <<>> THEN 0 ELSE Head(s) + SumSeq(Tail(s))

SeqsUpTo(S, n) == UNION {[1..k -> S] : k \in 0..n}

\* round(num / den, 1) of Python 3, in tenths.  Python rounds the exact
\* value of the float correctly, ties to even; a quotient of small integers
\* that is a tie at one decimal is an odd multiple of 1/20 with a denominator
\* dividing den, and for den <= 7 the only ties are multiples of 1/4, which
\* are exact in binary.
RoundTenths(num, den) ==
    LET q == (num * 10) \div den
        r == (num * 10) % den
    IN  IF 2 * r < den THEN q
        ELSE IF 2 * r > den THEN q + 1
        ELSE IF q % 2 = 0 THEN q ELSE q + 1

\* dict.get(key, default)
Get(item, key, default) == IF key \in DOMAIN item THEN item[key] ELSE default

\* -------------------------------------------------------------------- text

\* The characters of a unit.
UnitChars ==
    ("a" :> <<"a">>) @@ ("1" :> <<"1">>) @@ ("%" :> <<"%">>) @@
    (" " :> <<" ">>) @@ ("\n" :> <<"\n">>) @@
    ("a " :> <<"a", " ">>) @@ ("1 " :> <<"1", " ">>) @@
    ("." :> <<".">>) @@ ("!" :> <<"!">>) @@ ("?" :> <<"?">>) @@
    ("|" :> <<"|">>) @@ (". " :> <<".", " ">>) @@
    ("A" :> <<"A">>) @@ ("a. " :> <<"a", ".", " ">>)

Run(u, n) == [u |-> u, n |-> n]

Rep(u, n) ==
    LET cs == UnitChars[u]
    IN  [i \in 1..(Len(cs) * n) |-> cs[((i - 1) % Len(cs)) + 1]]

\* The string a run-length encoded text stands for, character by character.
RECURSIVE Expand(_)
Expand(text) ==
    IF text = <<>> THEN <<>>
    ELSE Rep(Head(text).u, Head(text).n) \o Expand(Tail(text))

\* str.lower() on one character.
Lower(c) ==
    IF c = "A" THEN "a"
    ELSE IF c = "C" THEN "c"
    ELSE IF c = "G" THEN "g"
    ELSE IF c = "I" THEN "i"
    ELSE c

IsSpace(c) == c \in {" ", "\n"}
IsDigit(c) == c = "1"

\* len(content)
StrLen(text) == SumSeq([i \in DOMAIN text |-> Len(UnitChars[text[i].u]) * text[i].n])

DigitRuns(s) ==
    Cardinality({i \in DOMAIN s : IsDigit(s[i]) /\ (i = 1 \/ ~IsDigit(s[i - 1]))})

\* len(re.findall(r'\d+', content)): the maximal runs of digits.
CountNumbers(text) == DigitRuns(Expand(text))

\* '%' in content
HasPercent(text) ==
    \E i \in DOMAIN text :
        \E k \in DOMAIN UnitChars[text[i].u] : UnitChars[text[i].u][k] = "%"

Words(s) ==
    Cardinality({i \in DOMAIN s : ~IsSpace(s[i]) /\ (i = 1 \/ IsSpace(s[i - 1]))})

\* len(content.split()): the maximal runs of non-whitespace characters.
WordCount(text) == Words(Expand(text))

\* The occurrences of two newlines that split('\n\n') cuts at: found left to
\* right without overlap, so those at an even offset in their run of
\* newlines.
Cuts(s) ==
    LET NewlinesBefore(i) ==
            LET stop == {j \in 1..(i - 1) :
                            s[j] # "\n" /\ \A m \in (j + 1)..(i - 1) : s[m] = "\n"}
                last == IF stop = {} THEN 0 ELSE CHOOSE j \in stop : TRUE
            IN  i - 1 - last
    IN  Cardinality({i \in 1..(Len(s) - 1) :
            s[i] = "\n" /\ s[i + 1] = "\n" /\ NewlinesBefore(i) % 2 = 0})

\* len(content.split('\n\n'))
ParagraphCount(text) == 1 + Cuts(Expand(text))

\* str.strip() on the encoded text: whitespace runs at both ends go, and a
\* last run whose unit ends in a space loses the space of its last copy.
RECURSIVE LStrip(_)
LStrip(text) ==
    IF text = <<>> THEN <<>>
    ELSE IF \A k \in DOMAIN UnitChars[Head(text).u] : IsSpace(UnitChars[Head(text).u][k])
         THEN LStrip(Tail(text))
         ELSE text

RECURSIVE RStrip(_)
RStrip(text) ==
    IF text = <<>> THEN <<>>
    ELSE LET last == text[Len(text)]
             front == SubSeq(text, 1, Len(text) - 1)
             cs == UnitChars[last.u]
         IN  IF \A k \in DOMAIN cs : IsSpace(cs[k])
             THEN RStrip(front)
             ELSE IF IsSpace(cs[Len(cs)])
                  THEN (IF last.n > 1 THEN Append(front, Run(last.u, last.n - 1))
                                      ELSE front)
                       \o <<Run(cs[1], 1)>>
                  ELSE text

Strip(text) == RStrip(LStrip(text))

\* ----------------------------------------------------------------- scorers

\* research_handler.calculate_confidence_score without the cap of the
\* numbers bonus and without the final clamp.
calculate_confidence_score_uncapped(content, section) ==
    LET length == StrLen(content)
        numbers == CountNumbers(content)
        c0 == 75
        c1 == c0 + (IF length > 200 THEN 5 ELSE IF length > 150 THEN 3 ELSE 0)
        c2 == c1 + (IF numbers > 0 THEN numbers * 2 ELSE 0)
        c3 == c2 + (IF HasPercent(content) THEN 5 ELSE 0)
        c4 == c3 + (IF section = "Key Statistics" /\ numbers > 0 THEN 5 ELSE 0)
        c5 == c4 + (IF section = "Overview" /\ length > 100 THEN 3 ELSE 0)
    IN  c5

\* research_handler.calculate_confidence_score
calculate_confidence_score(content, section) ==
    LET length == StrLen(content)
        numbers == CountNumbers(content)
        c0 == 75
        c1 == c0 + (IF length > 200 THEN 5 ELSE IF length > 150 THEN 3 ELSE 0)
        c2 == c1 + (IF numbers > 0 THEN Min(numbers * 2, 8) ELSE 0)
        c3 == c2 + (IF HasPercent(content) THEN 5 ELSE 0)
        c4 == c3 + (IF section = "Key Statistics" /\ numbers > 0 THEN 5 ELSE 0)
        c5 == c4 + (IF section = "Overview" /\ length > 100 THEN 3 ELSE 0)
    IN  Max(70, Min(98, c5))

\* book_generator.calculate_chapter_confidence with the upper clamp left out.
calculate_chapter_confidence_noupper(content, base_confidence) ==
    LET word_count == WordCount(content)
        c1 == base_confidence
              + (IF word_count > 300 THEN 5 ELSE IF word_count > 200 THEN 3 ELSE 0)
        c2 == c1 + (IF ParagraphCount(content) >= 3 THEN 4 ELSE 0)
    IN  Max(70, c2)

\* book_generator.calculate_chapter_confidence
calculate_chapter_confidence(content, base_confidence) ==
    LET word_count == WordCount(content)
        c1 == base_confidence
              + (IF word_count > 300 THEN 5 ELSE IF word_count > 200 THEN 3 ELSE 0)
        c2 == c1 + (IF ParagraphCount(content) >= 3 THEN 4 ELSE 0)
    IN  Max(70, Min(95, c2))

DefaultBaseConfidence == 80

\* Inputs of the scorers.
ResearchRuns == {Run("a", 200), Run("a", 100), Run("a", 50), Run("1 ", 4),
                 Run("1 ", 5), Run("1", 1), Run("%", 1)}
ChapterRuns == {Run("a ", 150), Run("a ", 151), Run("a ", 50),
                Run("\n", 2), Run("\n", 1)}
SectionNames == {"Overview", "Key Statistics", "Pricing"}
BaseConfidences == {-5, 66, 70, 91, 95, 200}

ScoreInputs ==
    {[fn |-> "research", content |-> c, section |-> s] :
        c \in SeqsUpTo(ResearchRuns, MaxRuns), s \in SectionNames}
    \cup {[fn |-> "chapter", content |-> c, base_confidence |-> b] :
        c \in SeqsUpTo(ChapterRuns, MaxRuns), b \in BaseConfidences}

\* len([s for s in content.split('.') if s.strip()]): the pieces between
\* full stops that hold something else than whitespace.
SentenceCount(text) ==
    LET inked == SelectSeq(Expand(text), LAMBDA c : ~IsSpace(c))
    IN  Cardinality({i \in DOMAIN inked :
            inked[i] # "." /\ (i = 1 \/ inked[i - 1] = ".")})

\* topic in content.lower(), both as sequences of characters.
Contains(s, t) ==
    \E i \in 1..(Len(s) - Len(t) + 1) : \A k \in DOMAIN t : s[i + k - 1] = t[k]

\* orchestrator.ProbabilityScorer._score_content_quality
_score_content_quality(content) ==
    LET word_count == WordCount(content)
        s1 == 70 + (IF word_count > 150 THEN 10 ELSE IF word_count > 100 THEN 5 ELSE 0)
        s2 == s1 + (IF SentenceCount(content) >= 3 THEN 5 ELSE 0)
        s3 == s2 + (IF CountNumbers(content) > 0 THEN 5 ELSE 0)
        s4 == s3 + (IF HasPercent(content) THEN 5 ELSE 0)
    IN  Min(s4, 100)

\* ProbabilityScorer._score_source rating the placeholder source at 60.
_score_source_low(source) ==
    IF source = "bedrock" THEN 95
    ELSE IF source = "groq" THEN 88
    ELSE IF source = "fallback" THEN 60
    ELSE 75

\* orchestrator.ProbabilityScorer._score_source
_score_source(source) ==
    IF source = "bedrock" THEN 95
    ELSE IF source = "groq" THEN 88
    ELSE IF source = "fallback" THEN 70
    ELSE 75

\* orchestrator.ProbabilityScorer._score_context_fit
_score_context_fit(content, context) ==
    LET given == Get(context, "topic", <<>>)
        topic == [k \in DOMAIN given |-> Lower(given[k])]
        chars == Expand(content)
        lowered == [k \in DOMAIN chars |-> Lower(chars[k])]
    IN  Min(80 + (IF topic # <<>> /\ Contains(lowered, topic) THEN 10 ELSE 0), 100)

\* orchestrator.ProbabilityScorer._get_confidence_level, on a score in tenths.
_get_confidence_level(score) ==
    IF score >= 900 THEN "Very High"
    ELSE IF score >= 800 THEN "High"
    ELSE IF score >= 700 THEN "Medium"
    ELSE "Low"

\* orchestrator.ProbabilityScorer.calculate_composite_score.  The weights
\* 0.5, 0.3 and 0.2 are applied as 5, 3 and 2 and the composite is kept in
\* tenths; on the scores the three scorers return, the float sum rounds to
\* that value and falls on the same side of 70, 80 and 90.
calculate_composite_score(content, source, context) ==
    LET scores == [content_quality |-> _score_content_quality(content),
                   source_reliability |-> _score_source(source),
                   context_fit |-> _score_context_fit(content, context)]
        composite == 5 * scores.content_quality + 3 * scores.source_reliability
                     + 2 * scores.context_fit
    IN  [composite_score |-> composite,
         breakdown |-> scores,
         confidence_level |-> _get_confidence_level(composite)]

\* Inputs of the composite scorer.
CompositeContents ==
    {<<>>, <<Run("a ", 100)>>, <<Run("a ", 101)>>, <<Run("a ", 150)>>,
     <<Run("a ", 151)>>, <<Run("a. ", 2)>>, <<Run("a. ", 3)>>, <<Run(". ", 3)>>,
     <<Run("1", 1)>>, <<Run("%", 1)>>, <<Run("A", 1)>>,
     <<Run("a. ", 151), Run("1", 1), Run("%", 1)>>}
CompositeSources == {"bedrock", "groq", "fallback", "Bedrock", "other"}
CompositeContexts ==
    {[topic |-> <<"a">>], [topic |-> <<"A">>], [topic |-> <<"b">>],
     [topic |-> <<>>], [section |-> "s"]}
CompositeInputs ==
    [content : CompositeContents, source : CompositeSources,
     context : CompositeContexts]

\* ------------------------------------------------------------ quality gate

HighConfidence == 85
MediumConfidence == 70

Count(s, P(_)) == Cardinality({i \in DOMAIN s : P(s[i])})

\* Lines 280-285 returning a verdict that accepts.
EmptyVerdictAccepting ==
    [acceptable |-> TRUE,
     average_confidence |-> 0,
     total_sections |-> 0,
     high_confidence_count |-> 0]

\* Lines 280-285: the verdict for an empty result list.
EmptyVerdict ==
    [acceptable |-> FALSE,
     average_confidence |-> 0,
     total_sections |-> 0,
     high_confidence_count |-> 0]

\* Lines 293-296 asking for the average alone.
AcceptableAverage(total, n, high_confidence, threshold) ==
    total >= threshold * n

\* Lines 293-296 asking for more than half of the sections.
AcceptableStrict(total, n, high_confidence, threshold) ==
    total >= threshold * n /\ 2 * high_confidence > n

\* Lines 293-296: average >= self.min_confidence and
\* high_confidence >= len(results) * 0.5, with average = total / n.  The
\* float quotient of integers is either equal to an integer threshold or at
\* least 1/n away from it, so the comparison is that of the exact values.
Acceptable(total, n, high_confidence, threshold) ==
    total >= threshold * n /\ 2 * high_confidence >= n

\* Lines 302-306 with the medium bucket starting above 70.
ConfidenceDistributionAbove(confidences, high_confidence) ==
    [high |-> high_confidence,
     medium |-> Count(confidences,
                      LAMBDA c : MediumConfidence < c /\ c < HighConfidence),
     low |-> Count(confidences, LAMBDA c : c < MediumConfidence)]

\* Lines 302-306: the 'confidence_distribution' of the verdict.
ConfidenceDistribution(confidences, high_confidence) ==
    [high |-> high_confidence,
     medium |-> Count(confidences,
                      LAMBDA c : MediumConfidence <= c /\ c < HighConfidence),
     low |-> Count(confidences, LAMBDA c : c < MediumConfidence)]

\* ResearchOrchestrator._validate_research_quality; average_confidence is
\* kept in tenths.
_validate_research_quality(data, threshold) ==
    LET results == Get(data, "results", <<>>)
    IN  IF results = <<>>
        THEN EmptyVerdict
        ELSE LET confidences == [i \in DOMAIN results |-> Get(results[i], "confidence", 0)]
                 total == SumSeq(confidences)
                 n == Len(confidences)
                 high_confidence == Count(confidences, LAMBDA c : c >= HighConfidence)
             IN  [acceptable |-> Acceptable(total, n, high_confidence, threshold),
                  average_confidence |-> RoundTenths(total, n),
                  total_sections |-> Len(results),
                  high_confidence_count |-> high_confidence,
                  confidence_distribution |->
                      ConfidenceDistribution(confidences, high_confidence)]

\* Research sections as the gate reads them: a confidence, or no
\* 'confidence' key at all.
GateConfidences == {50, 60, 70, 84, 85, 90, 95}
GateItems == {[section |-> "s", confidence |-> c] : c \in GateConfidences}
             \cup {[section |-> "s"]}
GateThresholds == {0, 70, 75, 90}
GateInputs == {[results |-> r] : r \in SeqsUpTo(GateItems, MaxGateSections)}
              \cup {[topic |-> "t"]}

IdleGate == research_data = None /\ min_confidence = 0 /\ validation = None
IdleScore == score_in = None /\ score_out = None
IdleResearch ==
    /\ sections = <<>> /\ sec_i = 0 /\ prompt = None
    /\ research_results = <<>> /\ research_out = None /\ attempts = <<>>
IdleBook ==
    /\ book_topic = None /\ book_research = <<>> /\ book = None
    /\ chapter_number = 0 /\ book_i = 0 /\ book_out = None

IdleChunk == split_text = <<>> /\ split_max = 0 /\ split_out = <<>>
IdleAudio ==
    /\ book_content = None /\ include_confidence = FALSE /\ unit_i = 0
    /\ audio_files = <<>> /\ failed_chapters = <<>> /\ total_duration = 0
    /\ audiobook_out = None
    /\ unit_text = <<>> /\ text_chunks = <<>> /\ audio_chunks = <<>>
    /\ final_audio_file = None /\ temp_files = <<>> /\ s3_objects = <<>>
    /\ units = <<>>
IdleWorkflow == clock = 0 /\ wf = <<>> /\ history = <<>>
IdleStore == store = <<>> /\ s3_puts = <<>>
IdleLater == IdleChunk /\ IdleAudio /\ IdleWorkflow /\ IdleStore

InitGate ==
    /\ mode = "gate"
    /\ pc = "call"
    /\ research_data \in GateInputs
    /\ min_confidence \in GateThresholds
    /\ validation = None
    /\ IdleScore
    /\ IdleResearch
    /\ IdleBook
    /\ IdleLater

Validate ==
    /\ mode = "gate"
    /\ pc = "call"
    /\ validation' = _validate_research_quality(research_data, min_confidence)
    /\ pc' = "done"
    /\ UNCHANGED <<mode, research_data, min_confidence, scoreVars, researchVars, bookVars,
                 chunkVars, audioVars, workflowVars, storeVars>>

NextGate == Validate

SpecGate == InitGate /\ [][NextGate]_vars

\* ------------------------------------------------------------ scorer runs

InitScore ==
    /\ mode = "score"
    /\ pc = "call"
    /\ score_in \in ScoreInputs
    /\ score_out = None
    /\ IdleGate
    /\ IdleResearch
    /\ IdleBook
    /\ IdleLater

ScoreResearch ==
    /\ mode = "score"
    /\ pc = "call"
    /\ score_in.fn = "research"
    /\ score_out' = calculate_confidence_score(score_in.content, score_in.section)
    /\ pc' = "done"
    /\ UNCHANGED <<mode, score_in, gateVars, researchVars, bookVars,
                 chunkVars, audioVars, workflowVars, storeVars>>

ScoreChapter ==
    /\ mode = "score"
    /\ pc = "call"
    /\ score_in.fn = "chapter"
    /\ score_out' = calculate_chapter_confidence(score_in.content, score_in.base_confidence)
    /\ pc' = "done"
    /\ UNCHANGED <<mode, score_in, gateVars, researchVars, bookVars,
                 chunkVars, audioVars, workflowVars, storeVars>>

NextScore == ScoreResearch \/ ScoreChapter

SpecScore == InitScore /\ [][NextScore]_vars

\* Runs of calculate_composite_score.
InitComposite ==
    /\ mode = "composite"
    /\ pc = "call"
    /\ score_in \in CompositeInputs
    /\ score_out = None
    /\ IdleGate
    /\ IdleResearch
    /\ IdleBook
    /\ IdleLater

Composite ==
    /\ mode = "composite"
    /\ pc = "call"
    /\ score_out' = calculate_composite_score(score_in.content, score_in.source,
                                              score_in.context)
    /\ pc' = "done"
    /\ UNCHANGED <<mode, score_in, gateVars, researchVars, bookVars,
                   chunkVars, audioVars, workflowVars, storeVars>>

NextComposite == Composite

SpecComposite == InitComposite /\ [][NextComposite]_vars

\* ---------------------------------------------------------- research stage

Topic == <<Run("a", 1)>>

\* The text of a section name.
SectionText(section) ==
    IF section = "Key Statistics" THEN <<Run("a ", 1), Run("a", 1)>>
    ELSE <<Run("a", 1)>>

KnownSections == {"Overview", "Key Statistics", "Advantages", "Challenges",
                  "Future Outlook", "Recommendations"}

\* research_handler.create_research_prompt: the template chosen and what it
\* embeds.
create_research_prompt(topic, section) ==
    IF section \in KnownSections
    THEN [template |-> section, topic |-> topic]
    ELSE [template |-> "default", topic |-> topic, section |-> section]

\* What a backend call can do: raise, or deliver a completion.
Completions == {<<Run("a", 1)>>,
                <<Run(" ", 1), Run("1 ", 4), Run("%", 1), Run("\n", 1)>>,
                <<Run(" ", 1)>>}
BackendOutcomes == [raised : {TRUE}, completion : {<<>>}]
                   \cup [raised : {FALSE}, completion : Completions]

\* research_handler.generate_with_bedrock: the stripped completion; an
\* exception of the call or an empty stripped completion raises.
generate_with_bedrock(outcome) ==
    IF outcome.raised \/ Strip(outcome.completion) = <<>>
    THEN [ok |-> FALSE, content |-> <<>>]
    ELSE [ok |-> TRUE, content |-> Strip(outcome.completion)]

\* research_handler.generate_with_groq
generate_with_groq(outcome) ==
    IF outcome.raised \/ Strip(outcome.completion) = <<>>
    THEN [ok |-> FALSE, content |-> <<>>]
    ELSE [ok |-> TRUE, content |-> Strip(outcome.completion)]

\* An entry that always names the primary backend.
SuccessEntryPrimary(section, content, source) ==
    [section |-> section,
     details |-> content,
     confidence |-> calculate_confidence_score(content, section),
     source |-> "bedrock"]

\* The entry appended for a section a backend answered.
SuccessEntry(section, content, source) ==
    [section |-> section,
     details |-> content,
     confidence |-> calculate_confidence_score(content, section),
     source |-> source]

\* "Research data for {section} is currently unavailable. Please try again later."
FallbackDetails(section) ==
    <<Run("a ", 3)>> \o SectionText(section) \o <<Run(" ", 1), Run("a ", 6), Run("a", 1)>>

\* A fallback entry that carries no confidence value.
FallbackEntryZero(section) ==
    [section |-> section,
     details |-> FallbackDetails(section),
     confidence |-> 0,
     source |-> "fallback"]

\* The entry appended when both backends failed.
FallbackEntry(section) ==
    [section |-> section,
     details |-> FallbackDetails(section),
     confidence |-> 50,
     source |-> "fallback"]

InitResearch ==
    /\ mode = "research"
    /\ pc = "bedrock"
    /\ sections \in SeqsUpTo(SectionNames, MaxSections)
    /\ sec_i = 1
    /\ prompt = None
    /\ research_results = <<>>
    /\ research_out = None
    /\ attempts = <<>>
    /\ IdleGate
    /\ IdleScore
    /\ IdleBook
    /\ IdleLater

Attempt(backend, p, ok) ==
    [section_index |-> sec_i, backend |-> backend, prompt |-> p, ok |-> ok]

\* Lines 146-167: the prompt is built, the primary backend answers, the
\* section is scored and appended; the loop moves on.
BedrockSucceeds ==
    /\ mode = "research" /\ pc = "bedrock" /\ sec_i <= Len(sections)
    /\ \E outcome \in BackendOutcomes :
        LET got == generate_with_bedrock(outcome)
        IN  /\ got.ok
            /\ research_results' = Append(research_results,
                   SuccessEntry(sections[sec_i], got.content, "bedrock"))
    /\ prompt' = create_research_prompt(Topic, sections[sec_i])
    /\ attempts' = Append(attempts, Attempt("bedrock", prompt', TRUE))
    /\ sec_i' = sec_i + 1
    /\ UNCHANGED <<mode, pc, sections, research_out, gateVars, scoreVars, bookVars,
                 chunkVars, audioVars, workflowVars, storeVars>>

\* Lines 146-155, 169-170: the primary backend raises.
BedrockFails ==
    /\ mode = "research" /\ pc = "bedrock" /\ sec_i <= Len(sections)
    /\ \E outcome \in BackendOutcomes : ~generate_with_bedrock(outcome).ok
    /\ prompt' = create_research_prompt(Topic, sections[sec_i])
    /\ attempts' = Append(attempts, Attempt("bedrock", prompt', FALSE))
    /\ pc' = "groq"
    /\ UNCHANGED <<mode, sections, sec_i, research_results, research_out,
                   gateVars, scoreVars, bookVars,
                 chunkVars, audioVars, workflowVars, storeVars>>

\* Lines 173-182: the secondary backend answers the same prompt.
GroqSucceeds ==
    /\ mode = "research" /\ pc = "groq"
    /\ \E outcome \in BackendOutcomes :
        LET got == generate_with_groq(outcome)
        IN  /\ got.ok
            /\ research_results' = Append(research_results,
                   SuccessEntry(sections[sec_i], got.content, "groq"))
    /\ attempts' = Append(attempts, Attempt("groq", prompt, TRUE))
    /\ sec_i' = sec_i + 1
    /\ pc' = "bedrock"
    /\ UNCHANGED <<mode, sections, prompt, research_out, gateVars, scoreVars, bookVars,
                 chunkVars, audioVars, workflowVars, storeVars>>

\* Lines 184-192 with the next section never reached: the loop is left.
GroqFailsAbort ==
    /\ mode = "research" /\ pc = "groq"
    /\ \E outcome \in BackendOutcomes : ~generate_with_groq(outcome).ok
    /\ research_results' = Append(research_results, FallbackEntry(sections[sec_i]))
    /\ attempts' = Append(attempts, Attempt("groq", prompt, FALSE))
    /\ sec_i' = Len(sections) + 1
    /\ pc' = "bedrock"
    /\ UNCHANGED <<mode, sections, prompt, research_out, gateVars, scoreVars, bookVars,
                 chunkVars, audioVars, workflowVars, storeVars>>

\* Lines 184-192 as a retry: the section is tried again from the primary.
GroqFailsRetry ==
    /\ mode = "research" /\ pc = "groq"
    /\ \E outcome \in BackendOutcomes : ~generate_with_groq(outcome).ok
    /\ attempts' = Append(attempts, Attempt("groq", prompt, FALSE))
    /\ pc' = "bedrock"
    /\ UNCHANGED <<mode, sections, sec_i, prompt, research_results, research_out,
                   gateVars, scoreVars, bookVars,
                 chunkVars, audioVars, workflowVars, storeVars>>

\* Lines 184-192: the secondary backend raises too; the placeholder is
\* appended and the loop moves on.
GroqFails ==
    /\ mode = "research" /\ pc = "groq"
    /\ \E outcome \in BackendOutcomes : ~generate_with_groq(outcome).ok
    /\ research_results' = Append(research_results, FallbackEntry(sections[sec_i]))
    /\ attempts' = Append(attempts, Attempt("groq", prompt, FALSE))
    /\ sec_i' = sec_i + 1
    /\ pc' = "bedrock"
    /\ UNCHANGED <<mode, sections, prompt, research_out, gateVars, scoreVars, bookVars,
                 chunkVars, audioVars, workflowVars, storeVars>>

\* Line 194: the loop is over.
ReturnResearch ==
    /\ mode = "research" /\ pc = "bedrock" /\ sec_i > Len(sections)
    /\ research_out' = research_results
    /\ pc' = "done"
    /\ UNCHANGED <<mode, sections, sec_i, prompt, research_results, attempts,
                   gateVars, scoreVars, bookVars,
                 chunkVars, audioVars, workflowVars, storeVars>>

NextResearch ==
    \/ BedrockSucceeds
    \/ BedrockFails
    \/ GroqSucceeds
    \/ GroqFails
    \/ ReturnResearch

SpecResearch == InitResearch /\ [][NextResearch]_vars

\* -------------------------------------------------------------- book stage

\* book_generator.generate_with_bedrock: the stripped completion; an
\* exception of the call or an empty stripped completion raises.
book_generate_with_bedrock(outcome) ==
    IF outcome.raised \/ Strip(outcome.completion) = <<>>
    THEN [ok |-> FALSE, content |-> <<>>]
    ELSE [ok |-> TRUE, content |-> Strip(outcome.completion)]

BookCompletions == {<<Run("a ", 2), Run("a", 1)>>,
                    <<Run("a ", 301), Run("\n", 4), Run("a", 1), Run("\n", 1)>>,
                    <<Run("\n", 1)>>}
BookOutcomes == [raised : {TRUE}, completion : {<<>>}]
                \cup [raised : {FALSE}, completion : BookCompletions]

\* The chapter number generate_conclusion gives its chapter.
ConclusionPlaceholder == 99

\* Lines 240-247: the generated introduction.
IntroChapter(content) ==
    [chapter_number |-> 1,
     title |-> "Introduction",
     content |-> content,
     word_count |-> WordCount(content),
     confidence |-> calculate_chapter_confidence(content, DefaultBaseConfidence),
     sections |-> <<>>]

\* Lines 252-260: "This comprehensive guide explores {topic} in detail,
\* providing insights, analysis, and practical information."
IntroFallback(topic) ==
    [chapter_number |-> 1,
     title |-> "Introduction",
     content |-> <<Run("a ", 4)>> \o topic \o <<Run(" ", 1), Run("a ", 7), Run("a", 1)>>,
     word_count |-> 15,
     confidence |-> 70,
     sections |-> <<>>]

\* Lines 310-323: the expanded chapter.
BodyChapter(number, title, content, base_confidence) ==
    LET confidence == calculate_chapter_confidence(content, base_confidence)
    IN  [chapter_number |-> number,
         title |-> title,
         content |-> content,
         word_count |-> WordCount(content),
         confidence |-> confidence,
         sections |-> <<[section_title |-> title,
                         content |-> content,
                         confidence |-> confidence]>>]

\* Lines 328-335 without the floor of 60 under the confidence.
BodyFallbackUnfloored(number, title, research_content, base_confidence) ==
    [chapter_number |-> number,
     title |-> title,
     content |-> research_content,
     word_count |-> WordCount(research_content),
     confidence |-> base_confidence - 10,
     sections |-> <<>>]

\* Lines 328-335: the unexpanded research content as the chapter.
BodyFallback(number, title, research_content, base_confidence) ==
    [chapter_number |-> number,
     title |-> title,
     content |-> research_content,
     word_count |-> WordCount(research_content),
     confidence |-> Max(base_confidence - 10, 60),
     sections |-> <<>>]

\* Lines 373-380: the generated conclusion.
ConclusionChapter(content) ==
    [chapter_number |-> ConclusionPlaceholder,
     title |-> "Conclusion",
     content |-> content,
     word_count |-> WordCount(content),
     confidence |-> calculate_chapter_confidence(content, DefaultBaseConfidence),
     sections |-> <<>>]

\* Lines 384-392: "This guide has explored {topic} from multiple angles,
\* providing comprehensive insights and practical information."
ConclusionFallback(topic) ==
    [chapter_number |-> ConclusionPlaceholder,
     title |-> "Conclusion",
     content |-> <<Run("a ", 4)>> \o topic \o <<Run(" ", 1), Run("a ", 8), Run("a", 1)>>,
     word_count |-> 15,
     confidence |-> 70,
     sections |-> <<>>]

TocEntry(number, title) == [chapter_number |-> number, title |-> title, page |-> number]

\* The prompts of the three kinds of chapter, by what they embed.
IntroPrompt(topic) == [kind |-> "introduction", topic |-> topic]
ChapterPrompt(topic, title, research_content) ==
    [kind |-> "chapter", topic |-> topic, title |-> title,
     research_content |-> research_content]
ConclusionPrompt(topic, research) ==
    [kind |-> "conclusion", topic |-> topic,
     sections |-> [i \in DOMAIN research |-> Get(research[i], "section", "")]]

\* Lines 191-199 taken over the chapters without the last one.
WithMetadataStale(b) ==
    LET front == SubSeq(b.chapters, 1, Len(b.chapters) - 1)
        confidences == [i \in DOMAIN front |-> Get(front[i], "confidence", 80)]
    IN  [b EXCEPT
           !.word_count = SumSeq([i \in DOMAIN front |-> Get(front[i], "word_count", 0)]),
           !.average_confidence = RoundTenths(SumSeq(confidences), Len(confidences))]

\* Lines 191-199: word_count and average_confidence (in tenths) over the
\* chapters.
WithMetadata(b) ==
    LET confidences == [i \in DOMAIN b.chapters |-> Get(b.chapters[i], "confidence", 80)]
    IN  [b EXCEPT
           !.word_count = SumSeq([i \in DOMAIN b.chapters |->
                                     Get(b.chapters[i], "word_count", 0)]),
           !.average_confidence = RoundTenths(SumSeq(confidences), Len(confidences))]

\* Research items handed to the book stage: answered sections, a fallback
\* placeholder, and an item that carries no confidence.
BookItems ==
    {[section |-> "Overview", details |-> <<Run("a ", 3), Run("1", 2)>>,
      confidence |-> 92, source |-> "bedrock"],
     [section |-> "Key Statistics", details |-> FallbackDetails("Key Statistics"),
      confidence |-> 50, source |-> "fallback"],
     [section |-> "Pricing", details |-> <<Run("a", 1)>>]}
Topics == {<<Run("a", 1)>>, <<Run("a ", 2), Run("a", 1)>>}

BookAttempt(index, p, ok) ==
    [section_index |-> index, backend |-> "bedrock", prompt |-> p, ok |-> ok]

InitBook ==
    /\ mode = "book"
    /\ pc = "introduction"
    /\ book_topic \in Topics
    /\ book_research \in SeqsUpTo(BookItems, MaxBookSections)
    /\ book = [title |-> "Comprehensive Guide", topic |-> book_topic,
               author |-> "AI Research Assistant",
               chapters |-> <<>>, table_of_contents |-> <<>>,
               word_count |-> 0, average_confidence |-> 0]
    /\ chapter_number = 0
    /\ book_i = 0
    /\ book_out = None
    /\ attempts = <<>>
    /\ sections = <<>> /\ sec_i = 0 /\ prompt = None
    /\ research_results = <<>> /\ research_out = None
    /\ IdleGate
    /\ IdleScore
    /\ IdleLater

\* What every step of generate_book does after its chapter is made: lines
\* 150-158, 173-180.
Appended(chapter, toc_number) ==
    [book EXCEPT
       !.chapters = Append(@, chapter),
       !.table_of_contents = Append(@, TocEntry(toc_number, chapter.title))]

AfterBody(next_i) == IF next_i > Len(book_research) THEN "conclusion" ELSE "chapter"

\* Lines 149-158 with generate_introduction answered.
IntroGenerated ==
    /\ mode = "book" /\ pc = "introduction"
    /\ \E outcome \in BookOutcomes :
        LET got == book_generate_with_bedrock(outcome)
        IN  /\ got.ok
            /\ book' = Appended(IntroChapter(got.content), 1)
    /\ attempts' = Append(attempts, BookAttempt(1, IntroPrompt(book_topic), TRUE))
    /\ chapter_number' = 2
    /\ book_i' = 1
    /\ pc' = AfterBody(1)
    /\ UNCHANGED <<mode, book_topic, book_research, book_out, sections, sec_i, prompt,
                   research_results, research_out, gateVars, scoreVars,
                 chunkVars, audioVars, workflowVars, storeVars>>

\* Lines 149-158 with generate_introduction falling back.
IntroFallsBack ==
    /\ mode = "book" /\ pc = "introduction"
    /\ \E outcome \in BookOutcomes : ~book_generate_with_bedrock(outcome).ok
    /\ book' = Appended(IntroFallback(book_topic), 1)
    /\ attempts' = Append(attempts, BookAttempt(1, IntroPrompt(book_topic), FALSE))
    /\ chapter_number' = 2
    /\ book_i' = 1
    /\ pc' = AfterBody(1)
    /\ UNCHANGED <<mode, book_topic, book_research, book_out, sections, sec_i, prompt,
                   research_results, research_out, gateVars, scoreVars,
                 chunkVars, audioVars, workflowVars, storeVars>>

\* Lines 159-180 with generate_chapter answered.
ChapterGenerated ==
    /\ mode = "book" /\ pc = "chapter"
    /\ LET item == book_research[book_i]
           section_name == Get(item, "section", "")
           section_details == Get(item, "details", <<>>)
           confidence == Get(item, "confidence", 80)
       IN  /\ \E outcome \in BookOutcomes :
                LET got == book_generate_with_bedrock(outcome)
                IN  /\ got.ok
                    /\ book' = Appended(BodyChapter(chapter_number, section_name,
                                                    got.content, confidence),
                                        chapter_number)
           /\ attempts' = Append(attempts,
                  BookAttempt(chapter_number,
                              ChapterPrompt(book_topic, section_name, section_details),
                              TRUE))
    /\ chapter_number' = chapter_number + 1
    /\ book_i' = book_i + 1
    /\ pc' = AfterBody(book_i + 1)
    /\ UNCHANGED <<mode, book_topic, book_research, book_out, sections, sec_i, prompt,
                   research_results, research_out, gateVars, scoreVars,
                 chunkVars, audioVars, workflowVars, storeVars>>

\* Lines 159-180 with the failed chapter left out of the book.
ChapterFallsBackDropped ==
    /\ mode = "book" /\ pc = "chapter"
    /\ \E outcome \in BookOutcomes : ~book_generate_with_bedrock(outcome).ok
    /\ attempts' = Append(attempts,
           BookAttempt(chapter_number,
                       ChapterPrompt(book_topic, Get(book_research[book_i], "section", ""),
                                     Get(book_research[book_i], "details", <<>>)),
                       FALSE))
    /\ book_i' = book_i + 1
    /\ pc' = AfterBody(book_i + 1)
    /\ UNCHANGED <<mode, book, chapter_number, book_topic, book_research, book_out,
                   sections, sec_i, prompt, research_results, research_out,
                   gateVars, scoreVars,
                 chunkVars, audioVars, workflowVars, storeVars>>

\* Lines 159-180 with generate_chapter falling back.
ChapterFallsBack ==
    /\ mode = "book" /\ pc = "chapter"
    /\ LET item == book_research[book_i]
           section_name == Get(item, "section", "")
           section_details == Get(item, "details", <<>>)
           confidence == Get(item, "confidence", 80)
       IN  /\ \E outcome \in BookOutcomes : ~book_generate_with_bedrock(outcome).ok
           /\ book' = Appended(BodyFallback(chapter_number, section_name,
                                            section_details, confidence),
                               chapter_number)
           /\ attempts' = Append(attempts,
                  BookAttempt(chapter_number,
                              ChapterPrompt(book_topic, section_name, section_details),
                              FALSE))
    /\ chapter_number' = chapter_number + 1
    /\ book_i' = book_i + 1
    /\ pc' = AfterBody(book_i + 1)
    /\ UNCHANGED <<mode, book_topic, book_research, book_out, sections, sec_i, prompt,
                   research_results, research_out, gateVars, scoreVars,
                 chunkVars, audioVars, workflowVars, storeVars>>

\* Lines 182-205 with generate_conclusion answered: the conclusion is
\* appended as generate_conclusion numbered it, the contents entry takes the
\* counter, the metadata is computed and the book returned.
ConclusionGenerated ==
    /\ mode = "book" /\ pc = "conclusion"
    /\ \E outcome \in BookOutcomes :
        LET got == book_generate_with_bedrock(outcome)
        IN  /\ got.ok
            /\ book' = WithMetadata(Appended(ConclusionChapter(got.content),
                                             chapter_number))
    /\ attempts' = Append(attempts,
           BookAttempt(chapter_number, ConclusionPrompt(book_topic, book_research), TRUE))
    /\ book_out' = book'
    /\ pc' = "done"
    /\ UNCHANGED <<mode, book_topic, book_research, chapter_number, book_i,
                   sections, sec_i, prompt, research_results, research_out,
                   gateVars, scoreVars,
                 chunkVars, audioVars, workflowVars, storeVars>>

\* Lines 182-205 with generate_conclusion falling back.
ConclusionFallsBack ==
    /\ mode = "book" /\ pc = "conclusion"
    /\ \E outcome \in BookOutcomes : ~book_generate_with_bedrock(outcome).ok
    /\ book' = WithMetadata(Appended(ConclusionFallback(book_topic), chapter_number))
    /\ attempts' = Append(attempts,
           BookAttempt(chapter_number, ConclusionPrompt(book_topic, book_research), FALSE))
    /\ book_out' = book'
    /\ pc' = "done"
    /\ UNCHANGED <<mode, book_topic, book_research, chapter_number, book_i,
                   sections, sec_i, prompt, research_results, research_out,
                   gateVars, scoreVars,
                 chunkVars, audioVars, workflowVars, storeVars>>

NextBook ==
    \/ IntroGenerated
    \/ IntroFallsBack
    \/ ChapterGenerated
    \/ ChapterFallsBack
    \/ ConclusionGenerated
    \/ ConclusionFallsBack

SpecBook == InitBook /\ [][NextBook]_vars

\* ---------------------------------------------------------- text chunking

\* text.replace('! ', '!|').replace('? ', '?|').replace('. ', '.|') on the
\* characters of the text: the space after '!', '?' or '.' becomes '|'.
\* The three patterns share no character, so their occurrences neither
\* overlap nor create one another.
ReplaceBreaks(s) ==
    [i \in DOMAIN s |->
        IF s[i] = " " /\ i > 1 /\ s[i - 1] \in {"!", "?", "."} THEN "|" ELSE s[i]]

\* s.split('|'): the pieces between the '|' characters, empty ones included.
SplitBar(s) ==
    LET bars == {i \in DOMAIN s : s[i] = "|"}
        n == Cardinality(bars)
        pos(k) == IF k = 0 THEN 0
                  ELSE IF k = n + 1 THEN Len(s) + 1
                  ELSE CHOOSE i \in bars : Cardinality({j \in bars : j < i}) = k - 1
    IN  [k \in 1..(n + 1) |-> SubSeq(s, pos(k - 1) + 1, pos(k) - 1)]

\* The loop of lines 407-419 with a current chunk that is never flushed
\* while it still fits.
RECURSIVE PackSentences(_, _, _, _)
PackSentences(sentences, packed, current_chunk, limit) ==
    IF sentences = <<>>
    THEN IF current_chunk # <<>> THEN Append(packed, current_chunk) ELSE packed
    ELSE LET sentence == Head(sentences)
         IN  IF Len(current_chunk) + Len(sentence) <= limit
             THEN PackSentences(Tail(sentences), packed, current_chunk \o sentence, limit)
             ELSE PackSentences(Tail(sentences),
                                IF current_chunk # <<>>
                                THEN Append(packed, current_chunk) ELSE packed,
                                sentence, limit)

\* audiobook_generator.split_text_into_chunks on the characters of the text.
split_text_into_chunks(s, limit) ==
    IF Len(s) <= limit
    THEN <<s>>
    ELSE PackSentences(SplitBar(ReplaceBreaks(s)), <<>>, <<>>, limit)

\* ''.join(parts)
RECURSIVE Join(_)
Join(parts) == IF parts = <<>> THEN <<>> ELSE Head(parts) \o Join(Tail(parts))

MaxTextLen == 4
MaxLimit == 3

ChunkChars == {"a", ".", "!", "?", " ", "|"}

InitChunk ==
    /\ mode = "chunk"
    /\ pc = "call"
    /\ split_text \in SeqsUpTo(ChunkChars, MaxTextLen)
    /\ split_max \in 1..MaxLimit
    /\ split_out = <<>>
    /\ IdleGate /\ IdleScore /\ IdleResearch /\ IdleBook
    /\ IdleAudio /\ IdleWorkflow /\ IdleStore

Split ==
    /\ mode = "chunk"
    /\ pc = "call"
    /\ split_out' = split_text_into_chunks(split_text, split_max)
    /\ pc' = "done"
    /\ UNCHANGED <<mode, split_text, split_max, gateVars, scoreVars, researchVars,
                   bookVars, audioVars, workflowVars, storeVars>>

NextChunk == Split

SpecChunk == InitChunk /\ [][NextChunk]_vars

\* --------------------------------------------------------- audiobook stage

MaxChunkSize == 9500
WordsPerMinute == 150
MaxAudioChapters == 2
MaxClock == 1

\* An Optional[int]: <<>> for None, <<c>> for the value c.
Some(c) == <<c>>
Nothing == <<>>

\* Words of the given lengths separated by single spaces; punctuation that
\* is not a sentence break counts as a letter of its word.
RECURSIVE Phrase(_)
Phrase(lengths) ==
    IF lengths = <<>> THEN <<>>
    ELSE IF Len(lengths) = 1 THEN <<Run("a", Head(lengths))>>
    ELSE <<Run("a", Head(lengths)), Run(" ", 1)>> \o Phrase(Tail(lengths))

\* str(n) for 0 <= n < 1000
NumberText(n) == <<Run("1", IF n < 10 THEN 1 ELSE IF n < 100 THEN 2 ELSE 3)>>

\* The string of a character sequence, one run per maximal block of equal
\* characters.
Encode(s) ==
    LET starts == {i \in DOMAIN s : i = 1 \/ s[i] # s[i - 1]}
        n == Cardinality(starts)
        start(k) == IF k = n + 1 THEN Len(s) + 1
                    ELSE CHOOSE i \in starts : Cardinality({j \in starts : j < i}) = k - 1
    IN  [k \in 1..n |-> Run(s[start(k)], start(k + 1) - start(k))]

\* 'Untitled Book', 'AI Research Assistant'
UntitledBook == Phrase(<<8, 4>>)
DefaultAuthor == Phrase(<<2, 8, 9>>)

\* f"Chapter {chapter_num}: {chapter_title}." followed by the joining space
TocLine(item) ==
    Phrase(<<7>>) \o <<Run(" ", 1)>> \o NumberText(Get(item, "chapter_number", 0))
        \o <<Run("a", 1), Run(" ", 1)>> \o Get(item, "title", <<>>) \o <<Run(". ", 1)>>

RECURSIVE TocLines(_)
TocLines(toc) == IF toc = <<>> THEN <<>> ELSE TocLine(Head(toc)) \o TocLines(Tail(toc))

\* audiobook_generator.generate_intro_text:
\* "{title}. Written by {author}. Table of Contents: Chapter n: t. ... Let's begin."
generate_intro_text(b) ==
    Get(b, "title", UntitledBook) \o <<Run(". ", 1)>>
        \o Phrase(<<7, 2>>) \o <<Run(" ", 1)>> \o Get(b, "author", DefaultAuthor)
        \o <<Run(". ", 1)>>
        \o Phrase(<<5, 2, 9>>) \o <<Run(" ", 1)>>
        \o TocLines(Get(b, "table_of_contents", <<>>))
        \o Phrase(<<5, 5>>) \o <<Run(".", 1)>>

\* audiobook_generator.prepare_chapter_text: "According to our AI analysis,
\* this content has a confidence score of {confidence} percent. " + content
prepare_chapter_text(content, confidence, narrate) ==
    IF narrate /\ confidence # Nothing
    THEN Phrase(<<9, 2, 3, 2, 9, 4, 7, 3, 1, 10, 5, 2>>) \o <<Run(" ", 1)>>
             \o NumberText(confidence[1]) \o <<Run(" ", 1)>> \o Phrase(<<7>>)
             \o <<Run(". ", 1)>> \o content
    ELSE content

\* The word counts W < 3000 at which the float product W / 150 * 60 comes
\* out just below the integer 2W/5 (615 / 150 * 60 = 245.99999999999997);
\* at every other W < 3000 its integer part is that of the exact value.
FloatShort == {615, 1225, 1230, 1235, 2450, 2460, 2470, 2525, 2535, 2545}

\* audiobook_generator.estimate_audio_duration: int(word_count / 150 * 60)
estimate_audio_duration(narrated) ==
    LET word_count == WordCount(narrated)
        exact == (word_count * 60) \div WordsPerMinute
    IN  IF word_count \in FloatShort THEN exact - 1 ELSE exact

\* The audio the TTS provider returns for a chunk: the speech of its text.
\* Audio is the sequence of the texts spoken.
Speech(chunk) == <<chunk>>

\* audiobook_generator.combine_audio_chunks: the first file is returned.
combine_audio_chunks(files) == files[1]

\* os.remove on each of the files, errors ignored.
Removed(fs, names) ==
    [f \in DOMAIN fs |-> IF \E k \in DOMAIN names : names[k] = f
                         THEN [exists |-> FALSE, audio |-> <<>>] ELSE fs[f]]

\* Lines 210-213 without the override of line 212-213.
AudiobookStatusNeverFailed(failed, chapters) ==
    IF failed = <<>> THEN "completed" ELSE "partial"

\* Lines 210-213 of generate_audiobook.
AudiobookStatus(failed, chapters) ==
    IF Len(failed) = Len(chapters) + 1 THEN "failed"
    ELSE IF failed = <<>> THEN "completed" ELSE "partial"

\* Chapter contents: 2 words, 150 words, 615 words, two sentences of 5000
\* characters each, and 9600 characters without a sentence break.
AudioContents == {Phrase(<<1, 1>>),
                  <<Run("a ", 149), Run("a", 1)>>,
                  <<Run("a ", 614), Run("a", 1)>>,
                  <<Run("a", 5000), Run(". ", 1), Run("a", 5000)>>,
                  <<Run("a", 9600)>>}

\* A chapter of a book as generate_audiobook reads it; the one of two words
\* comes without a confidence.
AudioChapter(number, content, scored) ==
    IF scored
    THEN [chapter_number |-> number, title |-> Phrase(<<5>>), content |-> content,
          confidence |-> 85]
    ELSE [chapter_number |-> number, title |-> Phrase(<<5>>), content |-> content]

AudioChapterKinds == {[content |-> c, scored |-> c # Phrase(<<1, 1>>)] : c \in AudioContents}

AudioBooks ==
    {[title |-> Phrase(<<4>>),
      chapters |-> [k \in DOMAIN kinds |->
                        AudioChapter(k, kinds[k].content, kinds[k].scored)],
      table_of_contents |-> [k \in DOMAIN kinds |->
                                [chapter_number |-> k, title |-> Phrase(<<5>>)]]]
        : kinds \in SeqsUpTo(AudioChapterKinds, MaxAudioChapters)}

\* The texts the model narrates: the intro of each book and each chapter
\* content with and without the confidence sentence.
Narrations ==
    {generate_intro_text(b) : b \in AudioBooks}
    \cup {prepare_chapter_text(c, confidence, narrate) :
             c \in AudioContents, confidence \in {Nothing, Some(85)},
             narrate \in BOOLEAN}

\* The chunks of the narrated texts that exceed the limit:
\* split_text_into_chunks applied to the characters of the text.
LongChunks ==
    [t \in {n \in Narrations : StrLen(n) > MaxChunkSize} |->
        LET cs == split_text_into_chunks(Expand(t), MaxChunkSize)
        IN  [k \in DOMAIN cs |-> Encode(cs[k])]]

\* text_chunks = split_text_into_chunks(text, max_chunk_size): a text
\* within the limit is returned as it is (lines 399-400).
ChunksOf(narrated) ==
    IF StrLen(narrated) <= MaxChunkSize THEN <<narrated>> ELSE LongChunks[narrated]

\* estimate_audio_duration(text) of each narrated text.
EstimatedDuration == [t \in Narrations |-> estimate_audio_duration(t)]

AudioChapters == Get(book_content, "chapters", <<>>)

\* The arguments generate_audiobook passes for the unit the loop is at.
UnitNumber == IF unit_i = 0 THEN 0 ELSE Get(AudioChapters[unit_i], "chapter_number", 0)
UnitTitle ==
    IF unit_i = 0 THEN Phrase(<<12>>)
    ELSE Get(AudioChapters[unit_i], "title",
             Phrase(<<7>>) \o <<Run(" ", 1)>> \o NumberText(UnitNumber))
UnitConfidence ==
    IF unit_i > 0 /\ include_confidence /\ "confidence" \in DOMAIN AudioChapters[unit_i]
    THEN Some(AudioChapters[unit_i].confidence) ELSE Nothing

InitAudio ==
    /\ mode = "audiobook"
    /\ pc = "intro"
    /\ book_content \in AudioBooks
    /\ include_confidence \in BOOLEAN
    /\ unit_i = 0
    /\ audio_files = <<>> /\ failed_chapters = <<>> /\ total_duration = 0
    /\ audiobook_out = None
    /\ unit_text = <<>> /\ text_chunks = <<>> /\ audio_chunks = <<>>
    /\ final_audio_file = None /\ temp_files = <<>> /\ s3_objects = <<>>
    /\ units = <<>>
    /\ clock = 0 /\ wf = <<>> /\ history = <<>>
    /\ IdleGate /\ IdleScore /\ IdleResearch /\ IdleBook /\ IdleChunk /\ IdleStore

otherAudioVars == <<mode, gateVars, scoreVars, researchVars, bookVars, chunkVars,
                    wf, history, storeVars>>

\* Lines 154-164, 310-312: the intro text is built and split.
BeginIntro ==
    /\ mode = "audiobook"
    /\ pc = "intro"
    /\ unit_text' = generate_intro_text(book_content)
    /\ text_chunks' = ChunksOf(unit_text')
    /\ audio_chunks' = <<>>
    /\ pc' = "tts"
    /\ UNCHANGED <<audiobookVars, final_audio_file, temp_files, s3_objects, units,
                   clock, otherAudioVars>>

\* Lines 173-196, 310-312: the loop takes the next chapter, prepares its
\* text and splits it.
BeginChapter ==
    /\ mode = "audiobook"
    /\ pc = "chapter"
    /\ unit_i <= Len(AudioChapters)
    /\ unit_text' = prepare_chapter_text(Get(AudioChapters[unit_i], "content", <<>>),
                                         UnitConfidence, include_confidence)
    /\ text_chunks' = ChunksOf(unit_text')
    /\ audio_chunks' = <<>>
    /\ pc' = "tts"
    /\ UNCHANGED <<audiobookVars, final_audio_file, temp_files, s3_objects, units,
                   clock, otherAudioVars>>

\* What the log keeps of a unit.
UnitRecord(tts_raised, put_raised, success, duration) ==
    [chapter |-> UnitNumber,
     narrated |-> unit_text,
     chunks |-> text_chunks,
     body |-> IF success THEN temp_files[final_audio_file].audio ELSE <<>>,
     tts_raised |-> tts_raised,
     put_raised |-> put_raised,
     success |-> success,
     duration |-> duration]

\* Lines 204-208 leaving the loop after the first failed unit.
UnitFailsAbort(error, tts_raised, put_raised) ==
    /\ failed_chapters' =
         Append(failed_chapters,
                IF unit_i = 0 THEN [chapter |-> 0, error |-> error]
                ELSE [chapter |-> UnitNumber, title |-> UnitTitle, error |-> error])
    /\ units' = Append(units, UnitRecord(tts_raised, put_raised, FALSE, 0))
    /\ unit_i' = Len(AudioChapters) + 1
    /\ pc' = "chapter"
    /\ unit_text' = <<>> /\ text_chunks' = <<>> /\ audio_chunks' = <<>>
    /\ final_audio_file' = None
    /\ UNCHANGED <<book_content, include_confidence, audio_files, total_duration,
                   audiobook_out, s3_objects, otherAudioVars>>

\* Lines 376-383 and 169-170, 204-208: the call returns success False and
\* the unit is listed as failed; the loop goes on.
UnitFails(error, tts_raised, put_raised) ==
    /\ failed_chapters' =
         Append(failed_chapters,
                IF unit_i = 0 THEN [chapter |-> 0, error |-> error]
                ELSE [chapter |-> UnitNumber, title |-> UnitTitle, error |-> error])
    /\ units' = Append(units, UnitRecord(tts_raised, put_raised, FALSE, 0))
    /\ unit_i' = unit_i + 1
    /\ pc' = "chapter"
    /\ unit_text' = <<>> /\ text_chunks' = <<>> /\ audio_chunks' = <<>>
    /\ final_audio_file' = None
    /\ UNCHANGED <<book_content, include_confidence, audio_files, total_duration,
                   audiobook_out, s3_objects, otherAudioVars>>

\* Lines 318-328: the provider returns the audio of the next chunk, which
\* is written to a new temporary file.
SynthesizeChunk ==
    /\ mode = "audiobook"
    /\ pc = "tts"
    /\ Len(audio_chunks) < Len(text_chunks)
    /\ temp_files' = Append(temp_files,
                            [exists |-> TRUE,
                             audio |-> Speech(text_chunks[Len(audio_chunks) + 1])])
    /\ audio_chunks' = Append(audio_chunks, Len(temp_files) + 1)
    /\ UNCHANGED <<pc, audiobookVars, unit_text, text_chunks, final_audio_file,
                   s3_objects, units, clock, otherAudioVars>>

\* Lines 318-323: the provider raises on the next chunk.
SynthesisRaises ==
    /\ mode = "audiobook"
    /\ pc = "tts"
    /\ Len(audio_chunks) < Len(text_chunks)
    /\ UnitFails("tts", TRUE, FALSE)
    /\ UNCHANGED <<temp_files, clock>>

\* Lines 330-341: several chunk files are combined and then removed, a
\* single one is taken as it is.
CombineChunks ==
    /\ mode = "audiobook"
    /\ pc = "tts"
    /\ Len(audio_chunks) = Len(text_chunks)
    /\ Len(audio_chunks) >= 1
    /\ IF Len(audio_chunks) > 1
       THEN /\ final_audio_file' = combine_audio_chunks(audio_chunks)
            /\ temp_files' = Removed(temp_files, audio_chunks)
       ELSE /\ final_audio_file' = audio_chunks[1]
            /\ UNCHANGED temp_files
    /\ pc' = "upload"
    /\ UNCHANGED <<audiobookVars, unit_text, text_chunks, audio_chunks, s3_objects,
                   units, clock, otherAudioVars>>

\* upload_audio_to_s3, lines 460-470: the key of the object.
AudioKey(timestamp, number) ==
    [timestamp |-> timestamp,
     filename |-> IF number = 0 THEN "intro" ELSE "chapter",
     number |-> number]

\* Lines 343-373, 166-168, 198-201: the file is read and put, and the unit
\* is listed with its artifact.  The clock is read for the key; up to a
\* second has passed since it was last read.
UploadSucceeds ==
    /\ mode = "audiobook"
    /\ pc = "upload"
    /\ temp_files[final_audio_file].exists
    /\ LET estimated_duration == EstimatedDuration[unit_text]
       IN  /\ \E now \in clock..Min(clock + 1, MaxClock) :
               /\ clock' = now
               /\ s3_objects' = Append(s3_objects,
                                       [key |-> AudioKey(now, UnitNumber),
                                        body |-> temp_files[final_audio_file].audio])
               /\ audio_files' =
                    Append(audio_files,
                           [chapter_number |-> UnitNumber,
                            chapter_title |-> UnitTitle,
                            s3_key |-> AudioKey(now, UnitNumber),
                            estimated_duration_seconds |-> estimated_duration,
                            confidence |-> UnitConfidence])
           /\ total_duration' = total_duration + estimated_duration
           /\ units' = Append(units, UnitRecord(FALSE, FALSE, TRUE, estimated_duration))
    /\ temp_files' = Removed(temp_files, <<final_audio_file>>)
    /\ unit_i' = unit_i + 1
    /\ pc' = "chapter"
    /\ unit_text' = <<>> /\ text_chunks' = <<>> /\ audio_chunks' = <<>>
    /\ final_audio_file' = None
    /\ UNCHANGED <<book_content, include_confidence, failed_chapters, audiobook_out,
                   otherAudioVars>>

\* Lines 472-494: put_object raises and the exception is raised again.
UploadRaises ==
    /\ mode = "audiobook"
    /\ pc = "upload"
    /\ temp_files[final_audio_file].exists
    /\ UnitFails("s3", FALSE, TRUE)
    /\ UNCHANGED <<temp_files, clock>>

\* Line 473: open() of a file that is no longer there raises.
UploadFileMissing ==
    /\ mode = "audiobook"
    /\ pc = "upload"
    /\ ~temp_files[final_audio_file].exists
    /\ UnitFails("no such file", FALSE, FALSE)
    /\ UNCHANGED <<temp_files, clock>>

\* Lines 210-221: after the last chapter the result is returned.
ReturnAudiobook ==
    /\ mode = "audiobook"
    /\ pc = "chapter"
    /\ unit_i > Len(AudioChapters)
    /\ audiobook_out' = [total_chapters |-> Len(AudioChapters),
                         audio_files |-> audio_files,
                         total_duration |-> total_duration,
                         failed_chapters |-> failed_chapters,
                         status |-> AudiobookStatus(failed_chapters, AudioChapters)]
    /\ pc' = "done"
    /\ UNCHANGED <<book_content, include_confidence, unit_i, audio_files,
                   failed_chapters, total_duration, chapterAudioVars, clock,
                   otherAudioVars>>

NextAudio ==
    \/ BeginIntro
    \/ BeginChapter
    \/ SynthesizeChunk
    \/ SynthesisRaises
    \/ CombineChunks
    \/ UploadSucceeds
    \/ UploadRaises
    \/ UploadFileMissing
    \/ ReturnAudiobook

SpecAudio == InitAudio /\ [][NextAudio]_vars

\* ------------------------------------------------------------ orchestrator

\* Two invocations of process_research_request, running side by side on
\* one clock.  Invocations share nothing but the clock.
Invocations == {1, 2}
Users == {"u1", "u2"}

\* The bodies of a 200 response of the research function: the sections
\* with their confidences.
WorkflowBodies ==
    {[results |-> [k \in DOMAIN confs |-> [section |-> "s", confidence |-> confs[k]]]]
        : confs \in {<<92, 88>>, <<84, 84>>, <<95, 60>>}}
WorkflowThresholds == {70, 90}

\* What _invoke_book_lambda can return: 'success' on a 200 response,
\* 'failed' on another status, 'error' when the invocation raised.
BookStatuses == {"success", "failed", "error"}

\* Line 90: f"{user_id}_{int(datetime.utcnow().timestamp())}"
WorkflowId(user_id, now) == [user_id |-> user_id, timestamp |-> now]

\* Line 113 asking for the request alone.
InvokesBookUngated(generate_book, verdict) == generate_book

\* Line 113: if generate_book and validation['acceptable']
InvokesBook(generate_book, verdict) == generate_book /\ verdict.acceptable

\* Lines 136-139: the 'book' entry when no book result exists.
SkippedBook(verdict) ==
    [status |-> "skipped",
     reason |-> IF ~verdict.acceptable THEN "Quality threshold not met"
                ELSE "Not requested"]

\* Lines 126-140: the aggregated result.
WorkflowResult(workflow_id, research, verdict, book_entry) ==
    [workflow_id |-> workflow_id,
     status |-> "completed",
     research |-> [status |-> "success", data |-> research, quality_metrics |-> verdict],
     book |-> book_entry]

\* The locals of an invocation that has not started; 'stages' lists the
\* calls it has made to the research function, the gate and the book
\* function, in order.
NotStarted(user_id, generate_book) ==
    [pc |-> "call", user_id |-> user_id, generate_book |-> generate_book,
     workflow_id |-> <<>>, research |-> <<>>, verdict |-> <<>>,
     book_calls |-> 0, stages |-> <<>>, result |-> <<>>]

InitWorkflow ==
    /\ mode = "workflow"
    /\ pc = "run"
    /\ clock = 0
    /\ wf \in [Invocations -> {NotStarted(u, g) : u \in Users, g \in BOOLEAN}]
    /\ history = <<>>
    /\ min_confidence \in WorkflowThresholds
    /\ research_data = None /\ validation = None
    /\ IdleScore /\ IdleResearch /\ IdleBook /\ IdleChunk /\ IdleAudio /\ IdleStore

otherWorkflowVars == <<mode, pc, gateVars, scoreVars, researchVars, bookVars,
                       chunkVars, audioVars, storeVars>>

\* A second passes.
Tick ==
    /\ mode = "workflow"
    /\ clock < MaxClock
    /\ clock' = clock + 1
    /\ UNCHANGED <<wf, history, otherWorkflowVars>>

\* Lines 88-94: the workflow id is formed and the research function invoked.
StartWorkflow(i) ==
    /\ mode = "workflow"
    /\ wf[i].pc = "call"
    /\ wf' = [wf EXCEPT ![i].workflow_id = <<WorkflowId(wf[i].user_id, clock)>>,
                        ![i].stages = Append(@, "research"),
                        ![i].pc = "research"]
    /\ UNCHANGED <<clock, history, otherWorkflowVars>>

\* Lines 96-102 with the gate evaluated on the failed research.
ResearchFailedGated(i) ==
    /\ mode = "workflow"
    /\ wf[i].pc = "research"
    /\ wf' = [wf EXCEPT ![i].result = <<[workflow_id |-> wf[i].workflow_id[1],
                                         status |-> "failed",
                                         stage |-> "research"]>>,
                        ![i].stages = Append(@, "gate"),
                        ![i].pc = "returned"]
    /\ UNCHANGED <<clock, history, otherWorkflowVars>>

\* Lines 96-102: the research function answered with another status than
\* 200, or its invocation raised.
ResearchFailed(i) ==
    /\ mode = "workflow"
    /\ wf[i].pc = "research"
    /\ wf' = [wf EXCEPT ![i].result = <<[workflow_id |-> wf[i].workflow_id[1],
                                         status |-> "failed",
                                         stage |-> "research"]>>,
                        ![i].pc = "returned"]
    /\ UNCHANGED <<clock, history, otherWorkflowVars>>

\* Lines 104-124 with the gate rejecting or no book asked for, then lines
\* 126-146: the result is aggregated with a skipped book, stored and
\* returned.
ResearchDoneBookSkipped(i) ==
    /\ mode = "workflow"
    /\ wf[i].pc = "research"
    /\ \E body \in WorkflowBodies :
        LET verdict == _validate_research_quality(body, min_confidence)
            result == WorkflowResult(wf[i].workflow_id[1], body, verdict,
                                     SkippedBook(verdict))
        IN  /\ ~InvokesBook(wf[i].generate_book, verdict)
            /\ wf' = [wf EXCEPT ![i].research = Some(body),
                                ![i].verdict = Some(verdict),
                                ![i].stages = Append(@, "gate"),
                                ![i].result = Some(result),
                                ![i].pc = "returned"]
            /\ history' = Append(history, result)
    /\ UNCHANGED <<clock, otherWorkflowVars>>

\* Lines 104-119: the gate accepts and a book was asked for, so the book
\* function is invoked.
ResearchDoneBookInvoked(i) ==
    /\ mode = "workflow"
    /\ wf[i].pc = "research"
    /\ \E body \in WorkflowBodies :
        LET verdict == _validate_research_quality(body, min_confidence)
        IN  /\ InvokesBook(wf[i].generate_book, verdict)
            /\ wf' = [wf EXCEPT ![i].research = Some(body),
                                ![i].verdict = Some(verdict),
                                ![i].stages = @ \o <<"gate", "book">>,
                                ![i].book_calls = @ + 1,
                                ![i].pc = "book"]
    /\ UNCHANGED <<clock, history, otherWorkflowVars>>

\* Lines 244-262, then 126-146 with a book that did not succeed ending the
\* workflow under the book's status, nothing stored.
BookReturnedStrict(i) ==
    /\ mode = "workflow"
    /\ wf[i].pc = "book"
    /\ \E status \in BookStatuses :
        LET completed == WorkflowResult(wf[i].workflow_id[1], wf[i].research[1],
                                        wf[i].verdict[1], [status |-> status])
            result == IF status = "success" THEN completed
                      ELSE [completed EXCEPT !.status = status]
        IN  /\ wf' = [wf EXCEPT ![i].result = Some(result), ![i].pc = "returned"]
            /\ history' = IF status = "success" THEN Append(history, result)
                          ELSE history
    /\ UNCHANGED <<clock, otherWorkflowVars>>

\* Lines 244-262, then 126-146: the book function has answered; the result
\* is aggregated with its answer, stored and returned.
BookReturned(i) ==
    /\ mode = "workflow"
    /\ wf[i].pc = "book"
    /\ \E status \in BookStatuses :
        LET result == WorkflowResult(wf[i].workflow_id[1], wf[i].research[1],
                                     wf[i].verdict[1], [status |-> status])
        IN  /\ wf' = [wf EXCEPT ![i].result = Some(result), ![i].pc = "returned"]
            /\ history' = Append(history, result)
    /\ UNCHANGED <<clock, otherWorkflowVars>>

\* The handler of lines 148-155 needs an exception inside the try block:
\* _invoke_research_lambda and _invoke_book_lambda catch their own, and the
\* gate does not raise on a body the research function returns.
NextWorkflow ==
    \/ Tick
    \/ \E i \in Invocations : StartWorkflow(i)
    \/ \E i \in Invocations : ResearchFailed(i)
    \/ \E i \in Invocations : ResearchDoneBookSkipped(i)
    \/ \E i \in Invocations : ResearchDoneBookInvoked(i)
    \/ \E i \in Invocations : BookReturned(i)

SpecWorkflow == InitWorkflow /\ [][NextWorkflow]_vars

\* ------------------------------------------------------------- blob store

\* topic.lower().replace(' ', '-')[:size], on a sequence of characters.
Slug(s, size) ==
    LET lowered == [k \in DOMAIN s |-> Lower(s[k])]
        dashed == [k \in DOMAIN s |-> IF lowered[k] = " " THEN "-" ELSE lowered[k]]
    IN  SubSeq(dashed, 1, Min(Len(dashed), size))

ResearchSlugSize == 50
BookSlugSize == 50
AudioSlugSize == 40

\* book_generator.py line 74: the default title of the book of a topic.
DefaultTitle(topic) ==
    <<"C", "o", "m", "p", "r", "e", "h", "e", "n", "s", "i", "v", "e", " ",
      "G", "u", "i", "d", "e", " ", "t", "o", " ">> \o topic

\* research_handler.py lines 415-417.
ResearchKey(user_id, timestamp, topic) ==
    [prefix |-> "research", user_id |-> user_id, timestamp |-> timestamp,
     name |-> Slug(topic, ResearchSlugSize), suffix |-> <<".json">>]

\* book_generator.py lines 482-486, 495.
BookKey(user_id, timestamp, title, suffix) ==
    [prefix |-> "books", user_id |-> user_id, timestamp |-> timestamp,
     name |-> Slug(title, BookSlugSize), suffix |-> suffix]

\* audiobook_generator.py lines 460-470; the number is printed on two digits.
StoredAudioKey(user_id, timestamp, topic, number) ==
    [prefix |-> "audiobooks", user_id |-> user_id, timestamp |-> timestamp,
     name |-> Slug(topic, AudioSlugSize),
     suffix |-> IF number = 0 THEN <<"_intro.mp3">>
                ELSE <<"_chapter", number \div 10, number % 10, ".mp3">>]

StoreTopics == {<<"A", "I">>, <<"a", "i">>, <<"a", " ", "i">>}

StoreRequest(user_id, topic) ==
    [pc |-> "research", user_id |-> user_id, topic |-> topic]

Put(i, key) == [by |-> i, key |-> key]

InitStore ==
    /\ mode = "store"
    /\ pc = "run"
    /\ clock = 0
    /\ store \in [Invocations -> {StoreRequest(u, t) : u \in Users, t \in StoreTopics}]
    /\ s3_puts = <<>>
    /\ wf = <<>> /\ history = <<>>
    /\ IdleGate /\ IdleScore /\ IdleResearch /\ IdleBook /\ IdleChunk /\ IdleAudio

otherStoreVars == <<mode, pc, gateVars, scoreVars, researchVars, bookVars,
                    chunkVars, audioVars, wf, history>>

\* A second passes.
StoreTick ==
    /\ mode = "store"
    /\ clock < MaxClock
    /\ clock' = clock + 1
    /\ UNCHANGED <<store, s3_puts, otherStoreVars>>

\* research_handler.lambda_handler line 106, store_research_in_s3: put_object
\* is called with the key of the caller, the second and the topic; whether
\* or not it raises, the handler goes on (lines 446-449).
StoreResearch(i) ==
    /\ mode = "store"
    /\ store[i].pc = "research"
    /\ s3_puts' = Append(s3_puts, Put(i, ResearchKey(store[i].user_id, clock,
                                                     store[i].topic)))
    /\ store' = [store EXCEPT ![i].pc = "book"]
    /\ UNCHANGED <<clock, otherStoreVars>>

\* book_generator.lambda_handler line 89, store_book_in_s3: the clock is read
\* once, then put_object is called for the JSON and for the text; when the
\* first call raises the second is not made (lines 508-510).
StoreBook(i) ==
    /\ mode = "store"
    /\ store[i].pc = "book"
    /\ LET title == DefaultTitle(store[i].topic)
           json_key == BookKey(store[i].user_id, clock, title, <<".json">>)
           text_key == BookKey(store[i].user_id, clock, title, <<".txt">>)
       IN  \E calls \in 1..2 :
               s3_puts' = s3_puts \o SubSeq(<<Put(i, json_key), Put(i, text_key)>>,
                                            1, calls)
    /\ store' = [store EXCEPT ![i].pc = "intro"]
    /\ UNCHANGED <<clock, otherStoreVars>>

\* upload_audio_to_s3 for the introduction (chapter_number 0) and then for
\* chapter 1; each call reads the clock itself.
StoreAudio(i) ==
    /\ mode = "store"
    /\ store[i].pc \in {"intro", "chapter"}
    /\ LET number == IF store[i].pc = "intro" THEN 0 ELSE 1
       IN  s3_puts' = Append(s3_puts,
                             Put(i, StoredAudioKey(store[i].user_id, clock,
                                                   store[i].topic, number)))
    /\ store' = [store EXCEPT ![i].pc = IF store[i].pc = "intro" THEN "chapter"
                                        ELSE "done"]
    /\ UNCHANGED <<clock, otherStoreVars>>

NextStore ==
    \/ StoreTick
    \/ \E i \in Invocations : StoreResearch(i)
    \/ \E i \in Invocations : StoreBook(i)
    \/ \E i \in Invocations : StoreAudio(i)

SpecStore == InitStore /\ [][NextStore]_vars

\* ------------------------------------------------- properties: quality gate

GateDone == mode = "gate" /\ pc = "done"
GateResults == Get(research_data, "results", <<>>)
GateScored == \A i \in DOMAIN GateResults : "confidence" \in DOMAIN GateResults[i]
GateConfs == [i \in DOMAIN GateResults |-> GateResults[i].confidence]
GateIs(confs, threshold) ==
    GateDone /\ GateScored /\ GateConfs = confs /\ min_confidence = threshold

\* C1: for a non-empty list of sections, each with a confidence, the gate
\* accepts exactly when the mean confidence is at least the threshold (the
\* confidences' excesses over the threshold sum to at least zero) and the
\* sections of confidence >= 85 are at least as many as the others (half is
\* enough); [90,90,60,60] at 70 is accepted, [95,50,50,50] at 70 is not.
C1_GateDecision ==
    /\ (GateDone /\ GateResults # <<>> /\ GateScored) =>
         (validation.acceptable <=>
            /\ SumSeq([i \in DOMAIN GateConfs |-> GateConfs[i] - min_confidence]) >= 0
            /\ Cardinality({i \in DOMAIN GateConfs : GateConfs[i] >= 85})
                 >= Cardinality({i \in DOMAIN GateConfs : GateConfs[i] < 85}))
    /\ GateIs(<<90, 90, 60, 60>>, 70) => validation.acceptable
    /\ GateIs(<<95, 50, 50, 50>>, 70) => ~validation.acceptable

\* C1 witness: the gate has accepted [90,90,60,60] at threshold 70.
C1_Witness == GateIs(<<90, 90, 60, 60>>, 70) /\ validation.acceptable

\* C2: on an empty section list the gate returns acceptable = false with
\* average_confidence, total_sections and high_confidence_count all zero,
\* whatever the threshold.
C2_EmptyRejected ==
    (GateDone /\ GateResults = <<>>) =>
        /\ validation.acceptable = FALSE
        /\ validation.average_confidence = 0
        /\ validation.total_sections = 0
        /\ validation.high_confidence_count = 0

\* C2 witness: the gate has run on an empty list with threshold 0.
C2_Witness ==
    /\ GateDone /\ "results" \in DOMAIN research_data /\ GateResults = <<>>
    /\ min_confidence = 0 /\ validation.total_sections = 0

\* The confidence the gate reads from a section: a missing one counts as 0.
GateRead == [i \in DOMAIN GateResults |->
                IF "confidence" \in DOMAIN GateResults[i]
                THEN GateResults[i].confidence ELSE 0]
GateBucket(lo, hi) == Cardinality({i \in DOMAIN GateRead : lo <= GateRead[i] /\ GateRead[i] <= hi})

\* C25: for a non-empty research result the distribution buckets partition
\* the sections: high counts the confidences >= 85, medium those in 70..84,
\* low those below 70, the three add up to total_sections and high equals
\* high_confidence_count.
C25_BucketsPartition ==
    (GateDone /\ GateResults # <<>>) =>
        LET d == validation.confidence_distribution
        IN  /\ d.high = GateBucket(85, 100)
            /\ d.medium = GateBucket(70, 84)
            /\ d.low = GateBucket(0, 69)
            /\ d.high + d.medium + d.low = validation.total_sections
            /\ d.high = validation.high_confidence_count

\* C25 witness: the gate has bucketed sections of confidence 70, 84, 85 and
\* one without a confidence into 1 high, 2 medium and 1 low.
C25_Witness ==
    /\ GateDone /\ Len(GateResults) = 4
    /\ \E i, j, k, l \in DOMAIN GateRead :
           GateRead[i] = 70 /\ GateRead[j] = 84 /\ GateRead[k] = 85
           /\ "confidence" \notin DOMAIN GateResults[l]
    /\ validation.confidence_distribution = [high |-> 1, medium |-> 2, low |-> 1]

\* ------------------------------------------------------ properties: scorers

ScoreDone(fn) == mode = "score" /\ pc = "done" /\ score_in.fn = fn

\* C6: the research scorer returns an integer in [70, 98] for every content
\* and section name.
C6_ResearchScoreRange == ScoreDone("research") => score_out \in 70..98

\* C6 witness: a content that earns every bonus is scored 98.
C6_Witness ==
    /\ ScoreDone("research") /\ score_out = 98
    /\ CountNumbers(score_in.content) > 4 /\ StrLen(score_in.content) > 200

\* C7: the chapter scorer returns an integer in [70, 95] for every content
\* and every base confidence, below 70 and above 95 included.
C7_ChapterScoreRange == ScoreDone("chapter") => score_out \in 70..95

\* C7 witness: a base above 95 is scored 95.
C7_Witness ==
    /\ ScoreDone("chapter") /\ score_in.base_confidence > 95 /\ score_out = 95
    /\ WordCount(score_in.content) > 300

CompositeDone == mode = "composite" /\ pc = "done"

\* C30: for every content, source tag and context the composite score lies
\* between 72 and 94: content quality in 70..95 weighs 0.5, source
\* reliability in {70, 75, 88, 95} weighs 0.3, context fit in {80, 90}
\* weighs 0.2; so the label returned is never "Low".
C30_CompositeRange ==
    CompositeDone =>
        LET b == score_out.breakdown
        IN  /\ b.content_quality \in 70..95
            /\ b.source_reliability \in {70, 75, 88, 95}
            /\ b.context_fit \in {80, 90}
            /\ score_out.composite_score
                  = 5 * b.content_quality + 3 * b.source_reliability + 2 * b.context_fit
            /\ score_out.composite_score >= 720
            /\ score_out.composite_score <= 940
            /\ score_out.confidence_level \in {"Very High", "High", "Medium"}

\* C30 witness: empty content from the placeholder source with no topic
\* scores 72.0, labelled "Medium".
C30_Witness ==
    /\ CompositeDone
    /\ score_in.content = <<>> /\ score_in.source = "fallback"
    /\ score_out.composite_score = 720
    /\ score_out.confidence_level = "Medium"

\* ----------------------------------------------- properties: research stage

ResearchDone == mode = "research" /\ pc = "done"
AttemptsOf(i, backend) ==
    {k \in DOMAIN attempts :
        attempts[k].section_index = i /\ attempts[k].backend = backend}
BackendFailed(i, backend) == \E k \in AttemptsOf(i, backend) : ~attempts[k].ok
BackendAnswered(i, backend) == \E k \in AttemptsOf(i, backend) : attempts[k].ok

\* C3: generate_research returns one entry per requested section, entry i
\* for section i; the list being built holds the sections handled so far in
\* input order, a section both backends failed on included.
C3_OneEntryPerSection ==
    /\ mode = "research" =>
        /\ Len(research_results) = sec_i - 1
        /\ sec_i <= Len(sections) + 1
        /\ \A k \in DOMAIN research_results :
              research_results[k].section = sections[k]
    /\ ResearchDone =>
        /\ Len(research_out) = Len(sections)
        /\ \A k \in DOMAIN sections : research_out[k].section = sections[k]

\* C3 witness: both backends failed on the first of three sections and the
\* two later ones were still answered.
C3_Witness ==
    /\ ResearchDone /\ Len(sections) = 3
    /\ sections[1] # sections[2] /\ sections[2] # sections[3]
    /\ research_out[1].source = "fallback"
    /\ research_out[2].source = "bedrock"
    /\ research_out[3].source = "groq"

\* C4: a section both backends failed on is recorded with confidence 50,
\* source "fallback" and the canned content; a section a backend answered
\* is recorded as a success, never as a fallback.
C4_FallbackEntry ==
    mode = "research" =>
        \A k \in DOMAIN research_results :
            LET entry == research_results[k]
            IN  /\ (BackendFailed(k, "bedrock") /\ BackendFailed(k, "groq")) =>
                     /\ entry.confidence = 50
                     /\ entry.source = "fallback"
                     /\ WordCount(entry.details) = 10 + WordCount(SectionText(sections[k]))
                     /\ entry.details = FallbackDetails(sections[k])
                /\ (BackendAnswered(k, "bedrock") \/ BackendAnswered(k, "groq")) =>
                     /\ entry.source \in {"bedrock", "groq"}
                     /\ entry.confidence \in 70..98

\* C4 witness: exactly one of three sections fell back, the others were
\* answered.
C4_Witness ==
    /\ ResearchDone /\ Len(sections) = 3
    /\ Cardinality({k \in 1..3 : research_out[k].source = "fallback"}) = 1
    /\ research_out[2].source = "fallback"
    /\ research_out[2].confidence = 50

C5_Attempts ==
    mode = "research" =>
        /\ \A i \in DOMAIN sections :
              /\ Cardinality(AttemptsOf(i, "bedrock")) =
                    (IF i < sec_i \/ (i = sec_i /\ pc = "groq") THEN 1 ELSE 0)
              /\ Cardinality(AttemptsOf(i, "groq")) <= 1
        /\ \A k \in DOMAIN attempts :
              /\ attempts[k].section_index \in DOMAIN sections
              /\ attempts[k].backend = "bedrock" =>
                    \A j \in 1..(k - 1) :
                        attempts[j].section_index < attempts[k].section_index
              /\ attempts[k].backend = "groq" =>
                    /\ k > 1
                    /\ attempts[k - 1].backend = "bedrock"
                    /\ attempts[k - 1].section_index = attempts[k].section_index
                    /\ attempts[k - 1].prompt = attempts[k].prompt
                    /\ ~attempts[k - 1].ok
        /\ Len(attempts) <= 2 * Len(sections)

\* What is left to do: two attempts per section not yet finished, one less
\* once the primary has failed, and the return.
C5_Variant ==
    2 * (Len(sections) + 1 - sec_i)
    + (IF pc = "done" THEN 0 ELSE 1)
    - (IF pc = "groq" THEN 1 ELSE 0)

\* C5: per section the primary backend is attempted first and once, the
\* secondary only right after the primary failed for that section and once;
\* at most 2N attempts are made, and every step of the call brings it
\* closer to its return.
C5_SingleFallbackHop ==
    /\ []C5_Attempts
    /\ [][mode = "research" => (C5_Variant' < C5_Variant /\ C5_Variant' >= 0)]_vars

\* C5 witness: three sections, every primary attempt failed: six attempts.
C5_Witness ==
    /\ ResearchDone /\ Len(sections) = 3 /\ Len(attempts) = 6

\* C26: each returned section's source tag names the backend that answered:
\* "bedrock" exactly when the primary attempt succeeded, "groq" exactly when
\* the primary failed and the secondary succeeded, "fallback" exactly when
\* both failed; a section tagged bedrock or groq has non-empty content.
C26_SourceNamesBackend ==
    ResearchDone =>
        \A i \in DOMAIN research_out :
            LET entry == research_out[i]
            IN  /\ entry.source \in {"bedrock", "groq", "fallback"}
                /\ entry.source = "bedrock" <=> BackendAnswered(i, "bedrock")
                /\ entry.source = "groq" <=>
                       (BackendFailed(i, "bedrock") /\ BackendAnswered(i, "groq"))
                /\ entry.source = "fallback" <=>
                       (BackendFailed(i, "bedrock") /\ BackendFailed(i, "groq"))
                /\ entry.source \in {"bedrock", "groq"} => StrLen(entry.details) > 0

\* C26 witness: of three returned sections one was answered by the primary,
\* one by the secondary and one by neither.
C26_Witness ==
    /\ ResearchDone /\ Len(research_out) = 3
    /\ research_out[1].source = "groq" /\ BackendAnswered(1, "groq")
    /\ research_out[2].source = "fallback" /\ BackendFailed(2, "groq")
    /\ research_out[3].source = "bedrock" /\ BackendAnswered(3, "bedrock")

\* The sections of the returned research that both backends failed on.
FallenBack == {i \in DOMAIN research_out :
                  BackendFailed(i, "bedrock") /\ BackendFailed(i, "groq")}
\* The verdict of the gate on the returned research, at a threshold.
VerdictOnResearch(threshold) ==
    _validate_research_quality([results |-> research_out], threshold)

\* C28: when more than half of the sections generate_research returned
\* are placeholders of sections both backends failed on, the gate rejects
\* the research at every threshold, 0 included, so the workflow does not
\* invoke the book function even when a book is asked for.
C28_FallbackMajorityRejected ==
    (ResearchDone /\ 2 * Cardinality(FallenBack) > Len(research_out)) =>
        \A threshold \in 0..100 :
            /\ ~VerdictOnResearch(threshold).acceptable
            /\ ~InvokesBook(TRUE, VerdictOnResearch(threshold))

\* C28 witness: two of three returned sections are placeholders, the third
\* was answered, and the gate rejects the research at threshold 0.
C28_Witness ==
    /\ ResearchDone /\ Len(research_out) = 3
    /\ Cardinality(FallenBack) = 2
    /\ \E i \in DOMAIN research_out : research_out[i].source = "bedrock"
    /\ VerdictOnResearch(0).high_confidence_count < 2
    /\ ~VerdictOnResearch(0).acceptable

\* --------------------------------------------------- properties: book stage

BookDone == mode = "book" /\ pc = "done"
BookN == Len(book_research)

\* C8: in the returned book the table of contents has one entry per chapter
\* and entry i carries the chapter_number of chapter i.
C8_TocMatchesChapters ==
    BookDone =>
        /\ Len(book_out.table_of_contents) = Len(book_out.chapters)
        /\ \A i \in DOMAIN book_out.chapters :
              book_out.table_of_contents[i].chapter_number
                  = book_out.chapters[i].chapter_number

\* C9: in the returned book the chapters are numbered 1, 2, ..., N+2 in
\* order, the conclusion included: its placeholder 99 has been rewritten.
C9_ConclusionRenumbered ==
    BookDone =>
        /\ \A i \in DOMAIN book_out.chapters : book_out.chapters[i].chapter_number = i
        /\ (BookN + 2 # 99) =>
              \A i \in DOMAIN book_out.chapters : book_out.chapters[i].chapter_number # 99

\* C10: the returned book has N+2 chapters: the introduction, then for each
\* research section i, in input order, the chapter titled by it and built
\* from it (its details were the prompt's research content; they are the
\* chapter's content when the expansion failed), then the conclusion;
\* while the book is assembled no chapter is missing either.
C10_ChapterPerSection ==
    /\ (mode = "book" /\ pc \in {"chapter", "conclusion"}) =>
          /\ Len(book.chapters) = book_i
          /\ Len(attempts) = book_i
    /\ BookDone =>
          /\ Len(book_out.chapters) = BookN + 2
          /\ book_out.chapters[1].title = "Introduction"
          /\ attempts[1].prompt.kind = "introduction"
          /\ book_out.chapters[BookN + 2].title = "Conclusion"
          /\ attempts[BookN + 2].prompt.kind = "conclusion"
          /\ \A i \in 1..BookN :
                LET chapter == book_out.chapters[i + 1]
                    item == book_research[i]
                IN  /\ chapter.title = item.section
                    /\ attempts[i + 1].prompt.kind = "chapter"
                    /\ attempts[i + 1].prompt.title = item.section
                    /\ attempts[i + 1].prompt.research_content = item.details
                    /\ ~attempts[i + 1].ok => chapter.content = item.details
                    /\ attempts[i + 1].ok =>
                          /\ Len(chapter.sections) = 1
                          /\ chapter.sections[1].section_title = item.section

\* C10 witness: two different sections; the introduction and the first
\* body chapter failed to generate, the second was generated.
C10_Witness ==
    /\ BookDone /\ BookN = 2
    /\ book_research[1].section # book_research[2].section
    /\ ~attempts[1].ok /\ ~attempts[2].ok /\ attempts[3].ok
    /\ Len(book_out.chapters) = 4

\* C19: a body chapter whose expansion failed has the research content
\* itself as content, confidence max(original confidence - 10, 60) and no
\* sub-sections; one whose expansion succeeded has sub-sections; so a body
\* chapter is without sub-sections exactly when it is degraded.
C19_DegradedChapter ==
    BookDone =>
        \A i \in 1..BookN :
            LET chapter == book_out.chapters[i + 1]
                item == book_research[i]
                original == IF "confidence" \in DOMAIN item THEN item.confidence ELSE 80
                floored == IF original - 10 >= 60 THEN original - 10 ELSE 60
            IN  /\ ~attempts[i + 1].ok =>
                      /\ chapter.content = item.details
                      /\ chapter.confidence = floored
                      /\ chapter.sections = <<>>
                /\ attempts[i + 1].ok => chapter.sections # <<>>
                /\ chapter.sections = <<>> <=> ~attempts[i + 1].ok

\* C19 witness: the expansion of a section of confidence 50 failed and the
\* chapter carries confidence 60, next to a section that was expanded.
C19_Witness ==
    /\ BookDone /\ BookN = 2
    /\ ~attempts[2].ok /\ attempts[3].ok
    /\ Get(book_research[1], "confidence", 80) = 50
    /\ book_out.chapters[2].confidence = 60
    /\ book_out.chapters[2].sections = <<>>
    /\ book_out.chapters[3].sections # <<>>

BookWordCounts == [i \in DOMAIN book_out.chapters |-> book_out.chapters[i].word_count]
BookConfidences == [i \in DOMAIN book_out.chapters |-> book_out.chapters[i].confidence]

\* C20: in every returned book word_count is the sum of the chapters'
\* word_count and average_confidence is the mean of the chapters'
\* confidence to one decimal (in tenths: within half a tenth of the mean),
\* whichever chapters failed to generate.
C20_BookMetadata ==
    BookDone =>
        LET n == Len(book_out.chapters)
            gap == 10 * SumSeq(BookConfidences) - book_out.average_confidence * n
        IN  /\ book_out.word_count = SumSeq(BookWordCounts)
            /\ 2 * gap <= n /\ 2 * gap >= -n

\* C20 witness: a book of four chapters, one body chapter degraded, whose
\* mean confidence is not a whole number.
C20_Witness ==
    /\ BookDone /\ BookN = 2
    /\ ~attempts[2].ok /\ attempts[3].ok
    /\ book_out.average_confidence % 10 # 0
    /\ book_out.word_count = SumSeq(BookWordCounts)
    /\ book_out.word_count > 300

\* C21: every chapter of a returned book, generated or fallen back, has a
\* confidence between 70 and 95, whatever the confidences of the research
\* sections (a fallback section of confidence 50 included).
C21_ChapterConfidenceRange ==
    BookDone =>
        \A i \in DOMAIN book_out.chapters :
            /\ book_out.chapters[i].confidence >= 70
            /\ book_out.chapters[i].confidence <= 95

\* C22: every chapter of the book, the canned introduction and conclusion
\* included, has a word_count equal to the number of whitespace-separated
\* words of its own content.
C22_WordCountOfContent ==
    (mode = "book" /\ pc # "introduction") =>
        \A i \in DOMAIN book.chapters :
            book.chapters[i].word_count = WordCount(book.chapters[i].content)

\* C23: in the book stage a prompt the primary backend failed on is
\* attempted on the secondary backend next, so a fallback chapter is made
\* only after both backends failed on its prompt.
C23_BookSecondaryAttempt ==
    mode = "book" =>
        \A k \in DOMAIN attempts :
            (attempts[k].backend = "bedrock" /\ ~attempts[k].ok) =>
                /\ k < Len(attempts)
                /\ attempts[k + 1].backend = "groq"
                /\ attempts[k + 1].prompt = attempts[k].prompt

\* ------------------------------------------------ properties: text chunking

ChunkDone == mode = "chunk" /\ pc = "done"

\* C11: for every text longer than the limit, also one without any '. ',
\* '! ' or '? ', every chunk split_text_into_chunks returns is at most
\* max_size characters long.
C11_ChunksWithinLimit ==
    (ChunkDone /\ Len(split_text) > split_max) =>
        \A i \in DOMAIN split_out : Len(split_out[i]) <= split_max

\* C12: for every text and limit, the chunks split_text_into_chunks returns,
\* joined in order, are the original text, character for character.
C12_ChunksRejoin ==
    ChunkDone => Join(split_out) = split_text

\* ---------------------------------------------- properties: audiobook stage

AudiobookDone == mode = "audiobook" /\ pc = "done"
UnitsFailed == Cardinality({i \in DOMAIN units : ~units[i].success})
AudioNumbers ==
    [i \in DOMAIN audiobook_out.audio_files |-> audiobook_out.audio_files[i].chapter_number]
FailedNumbers ==
    [i \in DOMAIN audiobook_out.failed_chapters |-> audiobook_out.failed_chapters[i].chapter]
Occurs(n, numbers) == \E i \in DOMAIN numbers : numbers[i] = n

\* C13: a unit whose text was split into more than one chunk, with every
\* TTS call and the put succeeding, is returned as a success whose uploaded
\* audio is the audio of all its chunks joined in chunk order; and the file
\* handed to the upload exists when the upload opens it.
C13_MultiChunkAudio ==
    /\ \A i \in DOMAIN units :
          (Len(units[i].chunks) > 1 /\ ~units[i].tts_raised /\ ~units[i].put_raised) =>
              /\ units[i].success
              /\ units[i].body =
                   Join([k \in DOMAIN units[i].chunks |-> Speech(units[i].chunks[k])])
    /\ (mode = "audiobook" /\ pc = "upload") => temp_files[final_audio_file].exists

\* C14: generate_audiobook over K chapters returns "completed" exactly when
\* no unit failed, "failed" exactly when all K+1 units (the intro included)
\* failed, and "partial" exactly when some but not all of them failed.
C14_AudiobookStatus ==
    AudiobookDone =>
        LET K == Len(AudioChapters)
            status == audiobook_out.status
        IN  /\ Len(units) = K + 1
            /\ status \in {"completed", "partial", "failed"}
            /\ status = "completed" <=> UnitsFailed = 0
            /\ status = "failed" <=> UnitsFailed = K + 1
            /\ status = "partial" <=> (0 < UnitsFailed /\ UnitsFailed < K + 1)

\* C14 witness: a book of two chapters came back "partial", and it was the
\* intro alone that had failed.
C14_Witness ==
    /\ AudiobookDone
    /\ Len(AudioChapters) = 2
    /\ audiobook_out.status = "partial"
    /\ ~units[1].success /\ units[2].success /\ units[3].success

\* C15: whatever fails, generate_audiobook narrates the intro and then every
\* chapter in book order, and lists each unit in exactly one of audio_files
\* and failed_chapters, so that the two lists hold K+1 entries together; a
\* failed unit does not keep the later chapters from being narrated; with no
\* failure there are K+1 artifacts, the intro first.
C15_EveryUnitListedOnce ==
    AudiobookDone =>
        LET K == Len(AudioChapters)
        IN  /\ Len(audiobook_out.audio_files) + Len(audiobook_out.failed_chapters) = K + 1
            /\ [i \in DOMAIN units |-> units[i].chapter] = [i \in 1..(K + 1) |-> i - 1]
            /\ \A n \in 0..K :
                  /\ Occurs(n, AudioNumbers) <=> units[n + 1].success
                  /\ Occurs(n, FailedNumbers) <=> ~units[n + 1].success
            /\ \A i, j \in DOMAIN AudioNumbers : i < j => AudioNumbers[i] < AudioNumbers[j]
            /\ \A i, j \in DOMAIN FailedNumbers : i < j => FailedNumbers[i] < FailedNumbers[j]
            /\ audiobook_out.failed_chapters = <<>> =>
                  /\ Len(audiobook_out.audio_files) = K + 1
                  /\ audiobook_out.audio_files[1].chapter_number = 0

\* C15 witness: of two chapters the first failed and the second, narrated
\* after it, is among the artifacts.
C15_Witness ==
    /\ AudiobookDone
    /\ Len(AudioChapters) = 2
    /\ FailedNumbers = <<1>>
    /\ AudioNumbers = <<0, 2>>

\* round(num / den) of Python 3: the nearest integer, ties to even.
RoundNearest(num, den) ==
    LET q == num \div den
        r == num % den
    IN  IF 2 * r < den THEN q
        ELSE IF 2 * r > den THEN q + 1
        ELSE IF q % 2 = 0 THEN q ELSE q + 1

\* C16: the estimated duration of a narrated text of W words is
\* round(W / 150 * 60) seconds, rounded to the nearest second and not
\* truncated, taken on the whole text before chunking; 150 words give 60.
C16_DurationRounded ==
    \A i \in DOMAIN units :
        units[i].success =>
            units[i].duration = RoundNearest(WordCount(units[i].narrated) * 60, 150)

\* ------------------------------------------------- properties: orchestrator

ResearchSucceeded(i) == mode = "workflow" /\ wf[i].research # <<>>
Returned(i) == mode = "workflow" /\ wf[i].pc = "returned"

\* C17: once research has succeeded, the book function is invoked if and
\* only if a book was asked for and the verdict is acceptable; otherwise it
\* is never invoked and the returned result carries a book entry of status
\* "skipped" with a reason.
C17_BookOnlyWhenAccepted ==
    \A i \in DOMAIN wf :
        ResearchSucceeded(i) =>
            LET wanted == wf[i].generate_book /\ wf[i].verdict[1].acceptable
            IN  /\ wf[i].book_calls = (IF wanted THEN 1 ELSE 0)
                /\ (Returned(i) /\ ~wanted) =>
                      /\ wf[i].result[1].book.status = "skipped"
                      /\ wf[i].result[1].book.reason
                           \in {"Quality threshold not met", "Not requested"}
                /\ (Returned(i) /\ wanted) => wf[i].result[1].book.status # "skipped"

\* C17 witness: a book was asked for, the gate rejected the research, and
\* the invocation returned without a call of the book function.
C17_Witness ==
    \E i \in DOMAIN wf :
        /\ ResearchSucceeded(i) /\ Returned(i)
        /\ wf[i].generate_book /\ ~wf[i].verdict[1].acceptable
        /\ wf[i].book_calls = 0
        /\ wf[i].result[1].book.status = "skipped"

\* C18: two distinct invocations never carry the same workflow_id, also
\* when they have the same user_id and start within the same second; and
\* the result an invocation returns carries the id it was given.
C18_WorkflowIdsDiffer ==
    /\ \A i, j \in DOMAIN wf :
          (i # j /\ wf[i].workflow_id # <<>> /\ wf[j].workflow_id # <<>>) =>
              wf[i].workflow_id # wf[j].workflow_id
    /\ \A i \in DOMAIN wf :
          Returned(i) => wf[i].result[1].workflow_id = wf[i].workflow_id[1]

IsPrefix(s, t) == Len(s) <= Len(t) /\ s = SubSeq(t, 1, Len(s))
ResearchFailedAt(i) ==
    Returned(i) /\ wf[i].result[1].status = "failed"

\* C27: in every run the stages occur in the order research, quality gate,
\* book: the gate is evaluated only after the research function returned
\* success, the book function is invoked only after the gate gave its
\* verdict, and a run whose research failed returns status "failed" at
\* stage "research" with neither the gate evaluated nor the book invoked.
C27_StageOrder ==
    mode = "workflow" =>
        \A i \in DOMAIN wf :
            /\ IsPrefix(wf[i].stages, <<"research", "gate", "book">>)
            /\ Occurs("gate", wf[i].stages) => wf[i].research # <<>>
            /\ Occurs("book", wf[i].stages) => wf[i].verdict # <<>>
            /\ (Returned(i) /\ wf[i].research = <<>>) =>
                  /\ wf[i].result[1].status = "failed"
                  /\ wf[i].result[1].stage = "research"
                  /\ wf[i].stages = <<"research">>
                  /\ wf[i].verdict = <<>>
                  /\ wf[i].book_calls = 0

\* C27 witness: one invocation went through research, gate and book and
\* returned, the other returned after its research failed.
C27_Witness ==
    /\ mode = "workflow"
    /\ \E i, j \in DOMAIN wf :
          /\ Returned(i) /\ wf[i].stages = <<"research", "gate", "book">>
          /\ ResearchFailedAt(j) /\ wf[j].stages = <<"research">>

\* The invocations that returned after their research succeeded.
CompletedRuns == {i \in DOMAIN wf : Returned(i) /\ wf[i].research # <<>>}

\* C29: whenever the research function succeeded the workflow returns
\* status "completed", whatever the book entry says (success, skipped,
\* failed or error), and its result is stored in the history exactly once;
\* a workflow that ended otherwise stores nothing.
C29_CompletedAndStoredOnce ==
    mode = "workflow" =>
        /\ \A i \in CompletedRuns :
              /\ wf[i].result[1].status = "completed"
              /\ wf[i].result[1].book.status \in {"success", "skipped", "failed", "error"}
              /\ Occurs(wf[i].result[1], history)
        /\ \A i \in DOMAIN wf :
              (Returned(i) /\ i \notin CompletedRuns) =>
                  /\ wf[i].result[1].status = "failed"
                  /\ ~Occurs(wf[i].result[1], history)
        /\ \A k \in DOMAIN history : history[k].status = "completed"
        /\ Len(history) = Cardinality(CompletedRuns)

\* C29 witness: one invocation completed with a book entry of status
\* "error", the other ended "failed"; the history holds one result.
C29_Witness ==
    /\ mode = "workflow"
    /\ \E i, j \in DOMAIN wf :
          /\ i \in CompletedRuns
          /\ wf[i].result[1].status = "completed"
          /\ wf[i].result[1].book.status = "error"
          /\ ResearchFailedAt(j)
    /\ Len(history) = 1

\* --------------------------------------------------- properties: blob store

\* C24: every blob-store write targets a key that no other write targets, so
\* two workflows running concurrently, even for the same caller and topic in
\* the same clock second, never write to the same key.
C24_KeysNeverShared ==
    mode = "store" =>
        \A j, k \in DOMAIN s3_puts :
            j # k => s3_puts[j].key # s3_puts[k].key

====
